---- MODULE Spec2Model ----
\* Model of dialga: the blueprint library (src/src/blueprint.rs) and the
\* entity fabricator (src/src/lib.rs), with the part of the knurdy node
\* decoder (src/knurdy/src/node.rs) that the component factories run.
EXTENDS Integers, Sequences, FiniteSets, TLC

VARIABLES
    prints,            \* BlueprintLibrary::prints : name -> RawBlueprint
    fabricators,       \* EntityFabricator::fabricators : component name -> ComponentFactory
    known_comp_types,  \* EntityFabricator::known_comp_types
    panicked,          \* a panic! of register has unwound the caller
    op,                \* the public call in progress
    target,            \* its `name` argument
    arg,               \* the argument of insert_raw, of a decoder call
    old,               \* the entry insert_raw matched under that name, as it was;
                       \* the library as load_str found it
    pc,                \* position inside the call
    stack,             \* live frames of `recurse`, innermost last
    ret,               \* value handed back by the frame that returned last
    print,             \* `print` of instantiate_catching_builder
    rest,              \* components the `for comp in print.components` loop has not reached
    builder,           \* insert_raw calls the builder received during the call
    result,            \* value the public call returns
    last,              \* the previous lookup and its value, while the state it read stands
    map_deser,         \* the MapDeser that visit_map received
    last_call,         \* the latest next_key_seed or next_value_seed call and what it returned
    keys,              \* the keys next_key_seed has returned to the visitor, in order
    clean,             \* no call on the MapDeser has returned an error
    seq_access,        \* the SeqAccess that visit_seq received, as it stands
    elements           \* what each next_element_seed call was asked and returned, in order

vars == <<prints, fabricators, known_comp_types, panicked, op, target, arg, old,
          pc, stack, ret, print, rest, builder, result, last,
          map_deser, last_call, keys, clean, seq_access, elements>>

----------------------------------------------------------------------------
\* Bounds of the model

\* longest component list of one incoming blueprint
MaxComps == 2

\* longest component list of one incoming blueprint where two blueprints inherit
MaxOwnComps == 1

\* most blueprints in one loaded document
MaxDoc == 2

\* most arguments of a decoded node that has more than one
MaxArgs == 2

\* most children of a decoded node
MaxKids == 2

\* most properties of a node decoded as a map
MaxProps == 2

\* component names the caller may register
CompNames == {"name", "legendary"}

\* component types the caller may register
CompTypes == {"Legendary", "TrackedPosition", "Named"}

----------------------------------------------------------------------------
\* Data model

NoInherit == "None"

NoValue == [kind |-> "None"]

NoLast == [name |-> "", result |-> NoValue]

EmptyMap == [n \in {} |-> NoValue]

Node(name, arguments) == [name |-> name, arguments |-> arguments]

\* component nodes of the library specifications: three names, one of them
\* with two different bodies
LibNodes == {Node("name", <<>>), Node("name", <<"Macy">>),
             Node("legendary", <<>>), Node("tracked-position", <<>>)}

MergeMode == {"Merge", "Clobber"}

SeqsUpTo(S, n) == UNION {[1..k -> S] : k \in 0..n}

RawBlueprint(names, lists) ==
    [name : names, inherit : names \cup {NoInherit}, merge : MergeMode,
     components : lists]

Names(comps) == {comps[i].name : i \in 1..Len(comps)}

----------------------------------------------------------------------------
\* BlueprintLibrary::insert_raw

\* `.iter_mut().find(|c| c.name() == name)`: index of the first match, 0 if none
FindComp(comps, name) ==
    IF \E i \in 1..Len(comps) : comps[i].name = name
    THEN CHOOSE i \in 1..Len(comps) :
            /\ comps[i].name = name
            /\ \A j \in 1..(i - 1) : comps[j].name # name
    ELSE 0

\* the incoming component always pushed, never written over the old one
RECURSIVE MergeCompsPush(_, _)
MergeCompsPush(components, incoming) ==
    IF incoming = <<>> THEN components
    ELSE MergeCompsPush(Append(components, Head(incoming)), Tail(incoming))

RECURSIVE MergeComps(_, _)
MergeComps(components, incoming) ==
    IF incoming = <<>> THEN components
    ELSE LET comp == Head(incoming)
             i == FindComp(components, comp.name)
         IN MergeComps(IF i # 0 THEN [components EXCEPT ![i] = comp]
                                ELSE Append(components, comp),
                       Tail(incoming))

\* Clobber writing over the components only
InsertRawKeepsHeader(lib, blueprint) ==
    IF blueprint.name \notin DOMAIN lib
    THEN lib @@ (blueprint.name :> blueprint)
    ELSE IF blueprint.merge = "Clobber"
         THEN [lib EXCEPT ![blueprint.name].components = blueprint.components]
         ELSE [lib EXCEPT ![blueprint.name].components =
                              MergeComps(@, blueprint.components)]

\* Merge taking the incoming inherit and merge mode along with the components
InsertRawMergesHeader(lib, blueprint) ==
    IF blueprint.name \notin DOMAIN lib
    THEN lib @@ (blueprint.name :> blueprint)
    ELSE IF blueprint.merge = "Clobber"
         THEN [lib EXCEPT ![blueprint.name] = blueprint]
         ELSE [lib EXCEPT ![blueprint.name] =
                  [blueprint EXCEPT !.components =
                      MergeComps(lib[blueprint.name].components, blueprint.components)]]

InsertRaw(lib, blueprint) ==
    IF blueprint.name \notin DOMAIN lib
    THEN lib @@ (blueprint.name :> blueprint)
    ELSE IF blueprint.merge = "Clobber"
         THEN [lib EXCEPT ![blueprint.name] = blueprint]
         ELSE [lib EXCEPT ![blueprint.name].components =
                              MergeComps(@, blueprint.components)]

----------------------------------------------------------------------------
\* BlueprintLibrary::lookup and its inner fn recurse

Ok(name, components) == [kind |-> "Ok", name |-> name, components |-> components]

NotFound(name) == [kind |-> "NotFound", name |-> name]

InheritanceLoop(problem) == [kind |-> "InheritanceLoop", path |-> problem]

InheriteeNotFound(f0, f1) == [kind |-> "InheriteeNotFound", f0 |-> f0, f1 |-> f1]

\* the path not consulted
MissingErrorNoPath(name, path) == NotFound(name)

\* the closure of `ok_or_else`
MissingError(name, path) ==
    IF path = <<>> THEN NotFound(name)
    ELSE InheriteeNotFound(path[Len(path)], name)

\* the search starting one element late
FindInPathLate(path, parent_name) ==
    IF \E i \in 2..Len(path) : path[i] = parent_name
    THEN CHOOSE i \in 2..Len(path) :
            /\ path[i] = parent_name
            /\ \A j \in 2..(i - 1) : path[j] # parent_name
    ELSE 0

\* `path.iter().enumerate().find_map(..)`: 1-based index of the first match, 0 if none
FindInPath(path, parent_name) ==
    IF \E i \in 1..Len(path) : path[i] = parent_name
    THEN CHOOSE i \in 1..Len(path) :
            /\ path[i] = parent_name
            /\ \A j \in 1..(i - 1) : path[j] # parent_name
    ELSE 0

\* the whole path reported, not `path[ono..]`
ProblemWholePath(path, ono, parent_name) == Append(path, parent_name)

Problem(path, ono, parent_name) ==
    Append(SubSeq(path, ono, Len(path)), parent_name)

\* recurse up to its recursive call: a value to return, or the call to make
RecurseHead(lib, name, path) ==
    IF name \notin DOMAIN lib THEN MissingError(name, path)
    ELSE LET raw == lib[name] IN
         IF raw.inherit = NoInherit THEN Ok(raw.name, raw.components)
         ELSE LET ono == FindInPath(path, raw.inherit) IN
              IF ono # 0
              THEN InheritanceLoop(Problem(path, ono, raw.inherit))
              ELSE [kind |-> "Call", name |-> raw.inherit,
                    path |-> Append(path, raw.inherit)]

\* the child's components pushed after the parent's, none written over
OverlayAppends(parent, comps) == parent \o comps

\* the clobbered component removed and the new one pushed at the end
RECURSIVE OverlayMovesToEnd(_, _)
OverlayMovesToEnd(parent, comps) ==
    IF comps = <<>> THEN parent
    ELSE LET comp == Head(comps)
         IN OverlayMovesToEnd(
                Append(SelectSeq(parent, LAMBDA c : c.name # comp.name), comp),
                Tail(comps))

RECURSIVE Overlay(_, _)
Overlay(parent, comps) ==
    IF comps = <<>> THEN parent
    ELSE LET comp == Head(comps)
             i == FindComp(parent, comp.name)
         IN Overlay(IF i # 0 THEN [parent EXCEPT ![i] = comp]
                             ELSE Append(parent, comp),
                    Tail(comps))

\* recurse after its recursive call has returned `r`
RecurseTail(lib, name, r) ==
    IF r.kind = "Ok"
    THEN Ok(r.name, Overlay(r.components, lib[name].components))
    ELSE r

----------------------------------------------------------------------------
\* knurdy: what a registered component type asks of the node decoder, and
\* whether the node answers it. A node of the model has arguments only.

\* deserialize_unit_struct: a node with nothing in it
DeserializeUnit(node) == node.arguments = <<>>

\* deserialize_string: exactly one argument, a string
SingleScalar(node) == Len(node.arguments) = 1

\* `struct Legendary;` and `struct TrackedPosition;` ask for a unit struct,
\* `struct Named(String)` for a newtype struct and through it for a string
DeserializeNode(tid, node) ==
    IF tid = "Named" THEN SingleScalar(node) ELSE DeserializeUnit(node)

----------------------------------------------------------------------------
\* knurdy: the document model (src/knurdy/src/lib.rs). An Option is a
\* sequence of at most one element; a string is the sequence of its chars,
\* each char its Unicode scalar value.

None == <<>>

Some(it) == <<it>>

KdlString(s) == [lit |-> "String", s |-> s]

KdlInt(it) == [lit |-> "Int", it |-> it]

KdlFloat(f) == [lit |-> "Float", f |-> f]

KdlBool(b) == [lit |-> "Bool", b |-> b]

KdlNull == [lit |-> "Null"]

KdlAnnotatedLiteral(annotation, literal) ==
    [annotation |-> annotation, literal |-> literal]

KdlNode(name, arguments, properties, children) ==
    [name |-> name, arguments |-> arguments, properties |-> properties,
     children |-> children]

\* what a decoder hands back: the visitor method it called and with what, or
\* a DeError, or the panic of `unreachable!`
Visit(method, value) == [kind |-> "Visit", method |-> method, value |-> value]

Err(error, unexpected) == [kind |-> "Err", error |-> error, unexpected |-> unexpected]

Unreachable == [kind |-> "Panic"]

\* KdlLiteral::unexpected
Unexpected(literal) ==
    CASE literal.lit = "String" -> "Str"
      [] literal.lit = "Int" -> "int"
      [] literal.lit = "Float" -> "Float"
      [] literal.lit = "Bool" -> "Bool"
      [] literal.lit = "Null" -> "Unit"

\* `s.as_bytes()`: the UTF-8 encoding of one char, of a string
Utf8(ch) ==
    IF ch < 128 THEN <<ch>>
    ELSE IF ch < 2048 THEN <<192 + (ch \div 64), 128 + (ch % 64)>>
    ELSE IF ch < 65536
         THEN <<224 + (ch \div 4096), 128 + ((ch \div 64) % 64), 128 + (ch % 64)>>
         ELSE <<240 + (ch \div 262144), 128 + ((ch \div 4096) % 64),
                128 + ((ch \div 64) % 64), 128 + (ch % 64)>>

RECURSIVE AsBytes(_)
AsBytes(s) == IF s = <<>> THEN <<>> ELSE Utf8(Head(s)) \o AsBytes(Tail(s))

\* `(*it).try_into()` of an i64 into the integer type `ty`; the integer
\* literals of the model lie within i32
FitsIn(ty, it) ==
    CASE ty = "u8" -> 0 <= it /\ it <= 255
      [] ty = "u16" -> 0 <= it /\ it <= 65535
      [] ty \in {"u32", "u64", "u128"} -> 0 <= it
      [] ty = "i8" -> -128 <= it /\ it <= 127
      [] ty = "i16" -> -32768 <= it /\ it <= 32767
      [] ty \in {"i32", "i64", "i128"} -> TRUE

\* char::try_from(u32)
IsScalarValue(u) == (0 <= u /\ u < 55296) \/ (57344 <= u /\ u <= 1114111)

\* `*f as f32`: 0.1 is not a binary32 value and is rounded to the nearest
AsF32(f) == IF f = "0.1" THEN "0.100000001490116" ELSE f

\* base64::decode of the strings of the model: "" and "QQ==" decode, the
\* others do not
Base64Decode(s) ==
    IF s = <<>> THEN Some(<<>>)
    ELSE IF s = <<81, 81, 61, 61>> THEN Some(<<65>>)
    ELSE None

IntTys == {"u8", "u16", "u32", "u64", "u128", "i8", "i16", "i32", "i64", "i128"}

----------------------------------------------------------------------------
\* knurdy: KdlLiteralDeser (src/knurdy/src/literal.rs), one Deserializer
\* method per requested shape `ty`

\* an integer out of range cut down to the low byte
DeserIntLiteralWrapping(ty, literal) ==
    IF literal.lit = "Int"
    THEN Visit(ty, IF FitsIn(ty, literal.it) THEN literal.it ELSE literal.it % 256)
    ELSE Err("invalid_type", Unexpected(literal))

\* deser_int_literal!
DeserIntLiteral(ty, literal) ==
    IF literal.lit = "Int"
    THEN IF FitsIn(ty, literal.it) THEN Visit(ty, literal.it)
                                   ELSE Err("IntSize", "int")
    ELSE Err("invalid_type", Unexpected(literal))

\* KdlLiteralDeser::deserialize_char
LiteralDeserializeChar(literal) ==
    IF literal.lit = "Int"
    THEN IF ~FitsIn("u32", literal.it) THEN Err("IntSize", "int")
         ELSE IF ~IsScalarValue(literal.it) THEN Err("InvalidChar", "int")
         ELSE Visit("char", literal.it)
    ELSE Err("invalid_type", Unexpected(literal))

RECURSIVE KdlLiteralDeser(_, _)
KdlLiteralDeser(ty, literal) ==
    CASE ty \in IntTys -> DeserIntLiteral(ty, literal)
      [] ty = "char" -> LiteralDeserializeChar(literal)
      [] ty = "f32" ->
            IF literal.lit = "Float" THEN Visit("f32", AsF32(literal.f))
            ELSE Err("invalid_type", Unexpected(literal))
      [] ty = "f64" ->
            IF literal.lit = "Float" THEN Visit("f64", literal.f)
            ELSE Err("invalid_type", Unexpected(literal))
      [] ty = "bool" ->
            IF literal.lit = "Bool" THEN Visit("bool", literal.b)
            ELSE Err("invalid_type", Unexpected(literal))
      [] ty \in {"str", "string", "identifier"} ->
            IF literal.lit = "String" THEN Visit("str", literal.s)
            ELSE Err("invalid_type", Unexpected(literal))
      [] ty \in {"bytes", "byte_buf"} ->
            IF literal.lit = "String" THEN Visit("bytes", AsBytes(literal.s))
            ELSE Err("invalid_type", Unexpected(literal))
      [] ty \in {"unit", "unit_struct"} ->
            IF literal.lit = "Null" THEN Visit("unit", <<>>)
            ELSE Err("invalid_type", Unexpected(literal))
      [] ty \in {"seq", "tuple", "tuple_struct", "map", "struct"} ->
            Err("invalid_type", Unexpected(literal))
      [] ty = "ignored_any" -> Visit("unit", <<>>)
      [] ty = "newtype_struct" -> Visit("newtype_struct", literal)
      [] ty = "option" ->
            IF literal.lit = "Null" THEN Visit("none", <<>>)
            ELSE Visit("some", literal)
      [] ty = "enum" -> Unreachable
      [] ty = "any" ->
            KdlLiteralDeser(CASE literal.lit = "String" -> "str"
                              [] literal.lit = "Int" -> "i64"
                              [] literal.lit = "Float" -> "f64"
                              [] literal.lit = "Bool" -> "bool"
                              [] literal.lit = "Null" -> "unit",
                            literal)

----------------------------------------------------------------------------
\* knurdy: KdlAnnotatedLiteralDeser (src/knurdy/src/literal.rs)

annotation_is(al, s) == al.annotation = Some(s)

\* the string taken as a byte under any annotation or none
DeserializeU8AnyAnnotation(al) ==
    IF al.literal.lit = "String"
    THEN IF Len(AsBytes(al.literal.s)) = 1
         THEN Visit("u8", AsBytes(al.literal.s)[1])
         ELSE Err("ByteAnnotationLen", "Str")
    ELSE KdlLiteralDeser("u8", al.literal)

\* KdlAnnotatedLiteralDeser::deserialize_u8
DeserializeU8(al) ==
    IF al.literal.lit = "String" /\ annotation_is(al, "byte")
    THEN IF Len(AsBytes(al.literal.s)) = 1
         THEN Visit("u8", AsBytes(al.literal.s)[1])
         ELSE Err("ByteAnnotationLen", "Str")
    ELSE KdlLiteralDeser("u8", al.literal)

\* KdlAnnotatedLiteralDeser::deserialize_char
DeserializeChar(al) ==
    IF al.literal.lit = "String" /\ annotation_is(al, "char")
    THEN IF Len(al.literal.s) = 1
         THEN Visit("char", al.literal.s[1])
         ELSE Err("CharAnnotationLen", "Str")
    ELSE KdlLiteralDeser("u8", al.literal)

\* KdlAnnotatedLiteralDeser::deserialize_bytes
DeserializeBytes(al) ==
    IF al.literal.lit = "String"
    THEN IF annotation_is(al, "base64")
         THEN IF Base64Decode(al.literal.s) = None
              THEN Err("Base64Error", "Str")
              ELSE Visit("byte_buf", Base64Decode(al.literal.s)[1])
         ELSE Visit("bytes", AsBytes(al.literal.s))
    ELSE Err("invalid_type", Unexpected(al.literal))

\* KdlAnnotatedLiteralDeser::deserialize_enum
LiteralDeserializeEnum(al) ==
    IF al.annotation = None
    THEN IF al.literal.lit = "String"
         THEN Visit("enum", [variant |-> Some(al.literal.s), tag |-> None,
                             value |-> None])
         ELSE Err("invalid_type", Unexpected(al.literal))
    ELSE Visit("enum", [variant |-> None, tag |-> al.annotation,
                        value |-> Some(al.literal)])

PassthruToLiteral ==
    {"u16", "u32", "u64", "u128", "i8", "i16", "i32", "i64", "i128", "f32", "f64",
     "bool", "str", "string", "identifier", "unit", "seq", "map", "ignored_any"}

KdlAnnotatedLiteralDeser(ty, al) ==
    CASE ty \in PassthruToLiteral -> KdlLiteralDeser(ty, al.literal)
      [] ty = "u8" -> DeserializeU8(al)
      [] ty = "char" -> DeserializeChar(al)
      [] ty \in {"bytes", "byte_buf"} -> DeserializeBytes(al)
      [] ty = "option" ->
            IF al.literal.lit = "Null" THEN Visit("none", <<>>)
            ELSE Visit("some", al)
      [] ty = "enum" -> LiteralDeserializeEnum(al)
      [] ty = "unit_struct" -> KdlLiteralDeser("unit", al.literal)
      [] ty = "newtype_struct" -> Visit("newtype_struct", al)
      [] ty \in {"tuple", "tuple_struct"} -> KdlLiteralDeser("seq", al.literal)
      [] ty = "struct" -> KdlLiteralDeser("map", al.literal)
      [] ty = "any" ->
            KdlLiteralDeser(CASE al.literal.lit = "String" -> "str"
                              [] al.literal.lit = "Int" -> "i64"
                              [] al.literal.lit = "Float" -> "f64"
                              [] al.literal.lit = "Bool" -> "bool"
                              [] al.literal.lit = "Null" -> "unit",
                            al.literal)

----------------------------------------------------------------------------
\* knurdy: EnumLiteralDeserializer (src/knurdy/src/literal.rs), the
\* EnumAccess and VariantAccess that deserialize_enum hands to visit_enum,
\* and the visitor serde derives for an enum with a variant of every kind

\* `enum AnEnum { Unit, Newtype(T), Tuple(T, T), Struct { .. } }`
AnEnum ==
    ("Unit" :> "unit") @@ ("Newtype" :> "newtype") @@ ("Tuple" :> "tuple")
    @@ ("Struct" :> "struct")

\* the text of a string literal of the model, as an identifier reads it
AsStr(s) ==
    CASE s = <<85, 110, 105, 116>> -> "Unit"
      [] s = <<78, 101, 119, 116, 121, 112, 101>> -> "Newtype"
      [] s = <<84, 117, 112, 108, 101>> -> "Tuple"
      [] s = <<83, 116, 114, 117, 99, 116>> -> "Struct"
      [] OTHER -> "A"

\* EnumLiteralDeserializer::variant_seed: the variant name the seed is given
variant_seed(access) ==
    IF access.tag # None THEN access.tag[1] ELSE AsStr(access.variant[1])

\* the value behind an annotation passed over
unit_variant_any_value(access) == [kind |-> "Ok"]

\* EnumLiteralDeserializer::unit_variant
unit_variant(access) ==
    IF access.value = None THEN [kind |-> "Ok"]
    ELSE Err("invalid_type", Unexpected(access.value[1]))

\* EnumLiteralDeserializer::newtype_variant_seed, the seed asking for `inner`
newtype_variant_seed(access, inner) ==
    IF access.value # None THEN KdlLiteralDeser(inner, access.value[1])
    ELSE Err("invalid_type", "UnitVariant")

\* EnumLiteralDeserializer::tuple_variant
tuple_variant(access) == Err("invalid_type", "argument/property")

\* EnumLiteralDeserializer::struct_variant
struct_variant(access) == Err("invalid_type", "argument/property")

\* the enum value the visitor builds
Variant(name, value) == [kind |-> "Ok", variant |-> name, value |-> value]

\* visit_enum of the derived visitor: the variant by its name, then the
\* VariantAccess method of that variant's kind
VisitEnum(access, inner) ==
    LET name == variant_seed(access) IN
    IF name \notin DOMAIN AnEnum THEN Err("unknown_variant", name)
    ELSE CASE AnEnum[name] = "unit" ->
                IF unit_variant(access).kind = "Ok" THEN Variant(name, None)
                ELSE unit_variant(access)
           [] AnEnum[name] = "newtype" ->
                IF newtype_variant_seed(access, inner).kind = "Visit"
                THEN Variant(name, Some(newtype_variant_seed(access, inner)))
                ELSE newtype_variant_seed(access, inner)
           [] AnEnum[name] = "tuple" -> tuple_variant(access)
           [] AnEnum[name] = "struct" -> struct_variant(access)

\* KdlAnnotatedLiteralDeser::deserialize_enum with the derived visitor
DeserializeEnum(al, inner) ==
    IF LiteralDeserializeEnum(al).kind = "Err" THEN LiteralDeserializeEnum(al)
    ELSE VisitEnum(LiteralDeserializeEnum(al).value, inner)

----------------------------------------------------------------------------
\* knurdy: KdlNodeDeser (src/knurdy/src/node.rs)

\* the methods single_scalar! writes
SingleScalarTys ==
    {"u8", "u16", "u32", "u64", "i8", "i16", "i32", "i64", "char", "bool", "f32",
     "f64", "str", "string", "bytes", "byte_buf", "identifier"}

\* `([it], true, true)`
OneArgumentOnly(node) ==
    /\ Len(node.arguments) = 1
    /\ DOMAIN node.properties = {}
    /\ node.children = None

\* single_scalar!(@ ty), and deserialize_enum with ty = "enum"
NodeSingleScalar(ty, node) ==
    IF OneArgumentOnly(node)
    THEN KdlAnnotatedLiteralDeser(ty, node.arguments[1])
    ELSE Err("invalid_type", "node that isn't exactly one argument")

\* `kids.iter().all(|kid| kid.name == "-")`
AllDashes(kids) == \A i \in 1..Len(kids) : kids[i].name = "-"

SeqArgsDeser(arguments) == [access |-> "SeqArgsDeser", items |-> arguments]

SeqDashChildrenDeser(kids) == [access |-> "SeqDashChildrenDeser", items |-> kids]

\* the MapDeser that deserialize_map hands to visit_map, before the order of
\* `self.properties.iter()` has been fixed
MapOf(node, snekify) ==
    [access |-> "MapDeser", properties |-> node.properties,
     children |-> node.children, snekify |-> snekify]

\* KdlNodeDeser::deserialize_map, forwarding_to_map_from_struct = snekify
NodeDeserializeMap(node, snekify) ==
    IF node.arguments # <<>>
    THEN Err("invalid_type", "node with no arguments")
    ELSE Visit("map", MapOf(node, snekify))

\* KdlNodeDeser::deserialize_seq
NodeDeserializeSeq(node) ==
    IF \/ DOMAIN node.properties # {}
       \/ (node.arguments = <<>> /\ node.children = None)
    THEN Err("invalid_type", "node invalid as sequence")
    ELSE IF node.children # None
         THEN IF ~AllDashes(node.children[1])
              THEN Err("invalid_type", "node invalid as sequence")
              ELSE Visit("seq", SeqDashChildrenDeser(node.children[1]))
         ELSE Visit("seq", SeqArgsDeser(node.arguments))

\* KdlNodeDeser::deserialize_unit
NodeDeserializeUnit(node) ==
    IF /\ node.arguments = <<>>
       /\ DOMAIN node.properties = {}
       /\ node.children = None
    THEN Visit("unit", <<>>)
    ELSE Err("invalid_type", "node with arguments or properties or children")

\* KdlNodeDeser::deserialize_any
NodeDeserializeAny(node) ==
    LET kids_all_dashes ==
            IF node.children # None THEN AllDashes(node.children[1]) ELSE FALSE
        has_arguments == node.arguments # <<>>
        has_rest == DOMAIN node.properties # {} \/ node.children # None
    IN IF ~has_arguments /\ ~has_rest THEN Visit("unit", <<>>)
       ELSE IF has_arguments /\ has_rest
            THEN Err("invalid_type", "node with arguments, properties/children")
       ELSE IF has_arguments THEN Visit("seq", SeqArgsDeser(node.arguments))
       ELSE IF kids_all_dashes
            THEN Visit("seq", SeqDashChildrenDeser(node.children[1]))
       ELSE NodeDeserializeMap(node, FALSE)

KdlNodeDeser(ty, node) ==
    CASE ty \in SingleScalarTys \cup {"enum"} -> NodeSingleScalar(ty, node)
      [] ty \in {"u128", "i128"} -> Err("custom", "128-bit integer is not supported")
      [] ty = "any" -> NodeDeserializeAny(node)
      [] ty = "map" -> NodeDeserializeMap(node, FALSE)
      [] ty = "struct" -> NodeDeserializeMap(node, TRUE)
      [] ty \in {"seq", "tuple", "tuple_struct"} -> NodeDeserializeSeq(node)
      [] ty \in {"unit", "unit_struct"} -> NodeDeserializeUnit(node)
      [] ty = "ignored_any" -> Visit("unit", <<>>)
      [] ty = "option" -> Visit("some", node)
      [] ty = "newtype_struct" -> Visit("newtype_struct", node)

\* every method of serde's Deserializer
Requests ==
    IntTys \cup SingleScalarTys
    \cup {"enum", "any", "map", "struct", "seq", "tuple", "tuple_struct", "unit",
          "unit_struct", "ignored_any", "option", "newtype_struct"}

\* the last element handed out first
NextElementSeedFromBack(access, ty) ==
    IF access.items = <<>> THEN [out |-> None, access |-> access]
    ELSE [out |-> Some(IF access.access = "SeqArgsDeser"
                       THEN KdlAnnotatedLiteralDeser(ty, access.items[Len(access.items)])
                       ELSE KdlNodeDeser(ty, access.items[Len(access.items)])),
          access |-> [access EXCEPT !.items = SubSeq(@, 1, Len(@) - 1)]]

\* SeqArgsDeser::next_element_seed and SeqDashChildrenDeser::next_element_seed,
\* the seed asking for `ty`: what the call returns and the cursor after it
NextElementSeed(access, ty) ==
    IF access.items = <<>> THEN [out |-> None, access |-> access]
    ELSE [out |-> Some(IF access.access = "SeqArgsDeser"
                       THEN KdlAnnotatedLiteralDeser(ty, Head(access.items))
                       ELSE KdlNodeDeser(ty, Head(access.items))),
          access |-> [access EXCEPT !.items = Tail(@)]]

----------------------------------------------------------------------------
\* Initial state: EntityFabricator::new(), no call in progress

Init ==
    /\ prints = EmptyMap
    /\ fabricators = EmptyMap
    /\ known_comp_types = {}
    /\ panicked = FALSE
    /\ op = "none"
    /\ target = ""
    /\ arg = NoValue
    /\ old = NoValue
    /\ pc = "idle"
    /\ stack = <<>>
    /\ ret = NoValue
    /\ print = NoValue
    /\ rest = <<>>
    /\ builder = <<>>
    /\ result = NoValue
    /\ last = NoLast
    /\ map_deser = NoValue
    /\ last_call = NoValue
    /\ keys = <<>>
    /\ clean = TRUE
    /\ seq_access = NoValue
    /\ elements = <<>>

Idle == pc = "idle" /\ ~panicked

callVars == <<op, target, arg, old, pc, stack, ret, print, rest, builder, result>>

registryVars == <<fabricators, known_comp_types, panicked>>

mapVars == <<map_deser, last_call, keys, clean>>

seqVars == <<seq_access, elements>>

----------------------------------------------------------------------------
\* EntityFabricator::register::<C>(name), C identified by its TypeIdWrapper

ComponentFactory(tid) == [tid |-> tid]

\* the type not entered into known_comp_types
register_forgets_type(name, tid) ==
    /\ Idle
    /\ fabricators' =
          IF name \in DOMAIN fabricators
          THEN [fabricators EXCEPT ![name] = ComponentFactory(tid)]
          ELSE fabricators @@ (name :> ComponentFactory(tid))
    /\ panicked' = (name \in DOMAIN fabricators)
    /\ last' = NoLast
    /\ UNCHANGED <<prints, callVars, known_comp_types>>
    /\ UNCHANGED <<mapVars, seqVars>>

\* a name that is taken handed over to the new type without a panic
register_takes_over_name(name, tid) ==
    /\ Idle
    /\ IF tid \in known_comp_types
       THEN /\ panicked' = TRUE
            /\ UNCHANGED <<known_comp_types, fabricators>>
       ELSE /\ known_comp_types' = known_comp_types \cup {tid}
            /\ fabricators' =
                  IF name \in DOMAIN fabricators
                  THEN [fabricators EXCEPT ![name] = ComponentFactory(tid)]
                  ELSE fabricators @@ (name :> ComponentFactory(tid))
            /\ panicked' = FALSE
    /\ last' = NoLast
    /\ UNCHANGED <<prints, callVars>>
    /\ UNCHANGED <<mapVars, seqVars>>

register(name, tid) ==
    /\ Idle
    /\ IF tid \in known_comp_types
       THEN /\ panicked' = TRUE
            /\ UNCHANGED <<known_comp_types, fabricators>>
       ELSE /\ known_comp_types' = known_comp_types \cup {tid}
            /\ fabricators' =
                  IF name \in DOMAIN fabricators
                  THEN [fabricators EXCEPT ![name] = ComponentFactory(tid)]
                  ELSE fabricators @@ (name :> ComponentFactory(tid))
            /\ panicked' = (name \in DOMAIN fabricators)
    /\ last' = NoLast
    /\ UNCHANGED <<prints, callVars>>
    /\ UNCHANGED <<mapVars, seqVars>>

----------------------------------------------------------------------------
\* BlueprintLibrary::insert_raw and load_str (a document that parsed into `raws`)

insert_raw(blueprint) ==
    /\ Idle
    /\ op' = "insert_raw"
    /\ arg' = blueprint
    /\ old' = IF blueprint.name \in DOMAIN prints THEN prints[blueprint.name]
                                                 ELSE NoValue
    /\ prints' = InsertRaw(prints, blueprint)
    /\ pc' = "done"
    /\ last' = NoLast
    /\ UNCHANGED <<registryVars, target, stack, ret, print, rest, builder, result>>
    /\ UNCHANGED <<mapVars, seqVars>>

RECURSIVE LoadRaws(_, _)
LoadRaws(lib, raws) ==
    IF raws = <<>> THEN lib
    ELSE LoadRaws(InsertRaw(lib, Head(raws)), Tail(raws))

load_str(raws) ==
    /\ Idle
    /\ prints' = LoadRaws(prints, raws)
    /\ last' = NoLast
    /\ UNCHANGED <<registryVars, callVars>>
    /\ UNCHANGED <<mapVars, seqVars>>

----------------------------------------------------------------------------
\* RawBlueprint::load_from_kdl and BlueprintLibrary::load_str from the source
\* text. A source parses into a document or does not; a document is the
\* sequence of its top-level nodes, each with its entries (arguments and
\* properties in source order) and its child block.

\* kdl::KdlEntry: `name` none for an argument, `value` the string it holds or
\* none when it holds no string, `ty` its annotation
Entry(name, value, ty) == [name |-> name, value |-> value, ty |-> ty]

\* kdl::KdlNode at the top level
Kid(name, children, entries) ==
    [name |-> name, children |-> children, entries |-> entries]

Unparsable == [parses |-> FALSE, doc |-> <<>>]

Parsed(doc) == [parses |-> TRUE, doc |-> doc]

\* BlueprintParseError: Parse(KdlError), or Deser(RawBlueprintDeserError)
\* with its kind and the node and entry its span points at
BlueprintParseError(error, parse_kind, node, entry) ==
    [kind |-> "Err", error |-> error, parse_kind |-> parse_kind, node |-> node,
     entry |-> entry]

\* str::to_lowercase on the merge modes of the model
ToLowercase(mode) ==
    CASE mode = "Merge" -> "merge"
      [] mode = "Clobber" -> "clobber"
      [] mode = "CLOBBER" -> "clobber"
      [] OTHER -> mode

\* one turn of `for entry in kid.entries()`: the error kind it returns with,
\* or "" and the `inherit` and `merge` it leaves
LoadEntry(entry, inherit, merge) ==
    IF entry.name = None
    THEN [error |-> "TopLevelArgument", inherit |-> inherit, merge |-> merge]
    ELSE IF entry.name[1] = "inherit"
    THEN IF inherit # None
         THEN [error |-> "ClobberInherit", inherit |-> inherit, merge |-> merge]
         ELSE IF entry.value = None
         THEN [error |-> "NonStringInherit", inherit |-> inherit, merge |-> merge]
         ELSE [error |-> IF entry.ty # None THEN "TopLevelAnnotation" ELSE "",
               inherit |-> entry.value, merge |-> merge]
    ELSE IF entry.name[1] = "merge"
    THEN IF merge # None
         THEN [error |-> "ClobberInherit", inherit |-> inherit, merge |-> merge]
         ELSE IF entry.value = None
         THEN [error |-> "BadMerge", inherit |-> inherit, merge |-> merge]
         ELSE IF ToLowercase(entry.value[1]) \notin {"merge", "clobber"}
         THEN [error |-> "BadMerge", inherit |-> inherit, merge |-> merge]
         ELSE [error |-> IF entry.ty # None THEN "TopLevelAnnotation" ELSE "",
               inherit |-> inherit,
               merge |-> Some(IF ToLowercase(entry.value[1]) = "merge"
                              THEN "Merge" ELSE "Clobber")]
    ELSE [error |-> "InvalidKey", inherit |-> inherit, merge |-> merge]

\* the loop over the entries from entry `i` on
RECURSIVE LoadEntries(_, _, _, _)
LoadEntries(entries, i, inherit, merge) ==
    IF i > Len(entries)
    THEN [error |-> "", entry |-> 0, inherit |-> inherit, merge |-> merge]
    ELSE IF LoadEntry(entries[i], inherit, merge).error # ""
         THEN [error |-> LoadEntry(entries[i], inherit, merge).error, entry |-> i,
               inherit |-> inherit, merge |-> merge]
         ELSE LoadEntries(entries, i + 1,
                          LoadEntry(entries[i], inherit, merge).inherit,
                          LoadEntry(entries[i], inherit, merge).merge)

\* the body of `for kid in doc.nodes()`: the RawBlueprint of one node, or
\* the error kind and the entry it is at (0: the node itself)
LoadKid(kid) ==
    IF kid.children = None THEN [error |-> "NoChildren", entry |-> 0]
    ELSE LET r == LoadEntries(kid.entries, 1, None, None) IN
         IF r.error # "" THEN [error |-> r.error, entry |-> r.entry]
         ELSE [error |-> "",
               raw |-> [name |-> kid.name,
                        inherit |-> IF r.inherit = None THEN NoInherit
                                                        ELSE r.inherit[1],
                        merge |-> IF r.merge = None THEN "Merge" ELSE r.merge[1],
                        components |-> kid.children[1]]]

\* load_from_kdl from node `Len(out) + 1` of the document on
RECURSIVE LoadFromKdlFrom(_, _)
LoadFromKdlFrom(kids, out) ==
    IF kids = <<>> THEN [kind |-> "Ok", raws |-> out]
    ELSE IF LoadKid(Head(kids)).error # ""
         THEN BlueprintParseError("Deser", LoadKid(Head(kids)).error,
                                  Len(out) + 1, LoadKid(Head(kids)).entry)
         ELSE LoadFromKdlFrom(Tail(kids), Append(out, LoadKid(Head(kids)).raw))

\* RawBlueprint::load_from_kdl
LoadFromKdl(doc) == LoadFromKdlFrom(doc, <<>>)

\* each blueprint inserted as soon as its node is read
load_str_inserting_as_read(src) ==
    /\ Idle
    /\ op' = "load_str"
    /\ arg' = src
    /\ old' = prints
    /\ IF ~src.parses
       THEN /\ result' = BlueprintParseError("Parse", "KdlError", 0, 0)
            /\ UNCHANGED prints
       ELSE IF LoadFromKdl(src.doc).kind = "Err"
            THEN /\ result' = LoadFromKdl(src.doc)
                 /\ prints' = LoadRaws(prints,
                                 LoadFromKdl(SubSeq(src.doc, 1,
                                     LoadFromKdl(src.doc).node - 1)).raws)
            ELSE /\ result' = [kind |-> "Ok"]
                 /\ prints' = LoadRaws(prints, LoadFromKdl(src.doc).raws)
    /\ pc' = "done"
    /\ last' = NoLast
    /\ UNCHANGED <<registryVars, target, stack, ret, print, rest, builder>>
    /\ UNCHANGED <<mapVars, seqVars>>

\* BlueprintLibrary::load_str(src, filename)
load_str_from(src) ==
    /\ Idle
    /\ op' = "load_str"
    /\ arg' = src
    /\ old' = prints
    /\ IF ~src.parses
       THEN /\ result' = BlueprintParseError("Parse", "KdlError", 0, 0)
            /\ UNCHANGED prints
       ELSE IF LoadFromKdl(src.doc).kind = "Err"
            THEN /\ result' = LoadFromKdl(src.doc)
                 /\ UNCHANGED prints
            ELSE /\ result' = [kind |-> "Ok"]
                 /\ prints' = LoadRaws(prints, LoadFromKdl(src.doc).raws)
    /\ pc' = "done"
    /\ last' = NoLast
    /\ UNCHANGED <<registryVars, target, stack, ret, print, rest, builder>>
    /\ UNCHANGED <<mapVars, seqVars>>

----------------------------------------------------------------------------
\* BlueprintLibrary::lookup(name): `recurse(self, name, Vec::new())`

Frame(name, path) == [name |-> name, path |-> path]

Call(kind, name) ==
    /\ Idle
    /\ op' = kind
    /\ target' = name
    /\ stack' = <<Frame(name, <<>>)>>
    /\ pc' = "recurse"
    /\ ret' = NoValue
    /\ print' = NoValue
    /\ rest' = <<>>
    /\ builder' = <<>>
    /\ result' = NoValue
    /\ UNCHANGED <<prints, registryVars, arg, old, last>>
    /\ UNCHANGED <<mapVars, seqVars>>

lookup(name) == Call("lookup", name)

\* EntityFabricator::instantiate_catching_builder(name, builder), up to its lookup
instantiate_catching_builder(name) == Call("instantiate", name)

\* the innermost frame of recurse runs up to its recursive call or its return
recurse ==
    /\ pc = "recurse"
    /\ LET top == stack[Len(stack)]
           r == RecurseHead(prints, top.name, top.path)
       IN IF r.kind = "Call"
          THEN /\ stack' = Append(stack, Frame(r.name, r.path))
               /\ UNCHANGED <<pc, ret>>
          ELSE /\ stack' = SubSeq(stack, 1, Len(stack) - 1)
               /\ ret' = r
               /\ pc' = "return"
    /\ UNCHANGED <<prints, registryVars, op, target, arg, old, print, rest, builder,
                   result, last>>
    /\ UNCHANGED <<mapVars, seqVars>>

\* the overlay also written back into the library entry of the frame
recurse_return_in_place ==
    /\ pc = "return"
    /\ stack # <<>>
    /\ ret' = RecurseTail(prints, stack[Len(stack)].name, ret)
    /\ prints' = IF ret.kind = "Ok"
                 THEN [prints EXCEPT ![stack[Len(stack)].name].components =
                                        ret'.components]
                 ELSE prints
    /\ stack' = SubSeq(stack, 1, Len(stack) - 1)
    /\ UNCHANGED <<registryVars, op, target, arg, old, pc, print, rest,
                   builder, result, last>>
    /\ UNCHANGED <<mapVars, seqVars>>

\* a frame of recurse gets its recursive call's value: `?`, overlay, Ok(parent)
recurse_return ==
    /\ pc = "return"
    /\ stack # <<>>
    /\ ret' = RecurseTail(prints, stack[Len(stack)].name, ret)
    /\ stack' = SubSeq(stack, 1, Len(stack) - 1)
    /\ UNCHANGED <<prints, registryVars, op, target, arg, old, pc, print, rest,
                   builder, result, last>>
    /\ UNCHANGED <<mapVars, seqVars>>

\* the outermost recurse has returned to lookup's caller
lookup_return ==
    /\ pc = "return"
    /\ stack = <<>>
    /\ IF op = "lookup"
       THEN /\ result' = ret
            /\ pc' = "done"
            /\ UNCHANGED <<print, rest>>
       ELSE IF ret.kind = "Ok"
            THEN /\ print' = ret
                 /\ rest' = ret.components
                 /\ pc' = "comps"
                 /\ UNCHANGED result
            ELSE /\ result' = [kind |-> "BlueprintLookupError", err |-> ret]
                 /\ pc' = "done"
                 /\ UNCHANGED <<print, rest>>
    /\ UNCHANGED <<prints, registryVars, op, target, arg, old, stack, ret, builder,
                   last>>
    /\ UNCHANGED <<mapVars, seqVars>>

\* the loop going on after a failure and returning the first error at the end
instantiate_comp_keeps_going ==
    /\ pc = "comps"
    /\ IF rest = <<>>
       THEN /\ result' = IF result = NoValue THEN [kind |-> "Ok"] ELSE result
            /\ pc' = "done"
            /\ UNCHANGED <<rest, builder>>
       ELSE LET comp == Head(rest)
                name == comp.name
            IN /\ rest' = Tail(rest)
               /\ pc' = pc
               /\ IF name \notin DOMAIN fabricators
                  THEN /\ result' = IF result = NoValue
                                    THEN [kind |-> "NoBlueprint", name |-> name]
                                    ELSE result
                       /\ UNCHANGED builder
                  ELSE IF ~DeserializeNode(fabricators[name].tid, comp)
                       THEN /\ result' = IF result = NoValue
                                         THEN [kind |-> "DeError", name |-> name]
                                         ELSE result
                            /\ UNCHANGED builder
                       ELSE /\ builder' = Append(builder,
                                              [tid |-> fabricators[name].tid, node |-> comp])
                            /\ UNCHANGED result
    /\ UNCHANGED <<prints, registryVars, op, target, arg, old, stack, ret, print,
                   last>>
    /\ UNCHANGED <<mapVars, seqVars>>

\* a component without a factory passed over
instantiate_comp_skips_unregistered ==
    /\ pc = "comps"
    /\ IF rest = <<>>
       THEN /\ result' = [kind |-> "Ok"]
            /\ pc' = "done"
            /\ UNCHANGED <<rest, builder>>
       ELSE LET comp == Head(rest)
                name == comp.name
            IN IF name \notin DOMAIN fabricators
               THEN /\ rest' = Tail(rest)
                    /\ UNCHANGED <<result, pc, builder>>
               ELSE IF ~DeserializeNode(fabricators[name].tid, comp)
                    THEN /\ result' = [kind |-> "DeError", name |-> name]
                         /\ pc' = "done"
                         /\ UNCHANGED <<rest, builder>>
                    ELSE /\ builder' = Append(builder,
                                           [tid |-> fabricators[name].tid, node |-> comp])
                         /\ rest' = Tail(rest)
                         /\ UNCHANGED <<result, pc>>
    /\ UNCHANGED <<prints, registryVars, op, target, arg, old, stack, ret, print,
                   last>>
    /\ UNCHANGED <<mapVars, seqVars>>

\* one turn of `for comp in print.components`, or the `Ok(builder)` after it
instantiate_comp ==
    /\ pc = "comps"
    /\ IF rest = <<>>
       THEN /\ result' = [kind |-> "Ok"]
            /\ pc' = "done"
            /\ UNCHANGED <<rest, builder>>
       ELSE LET comp == Head(rest)
                name == comp.name
            IN IF name \notin DOMAIN fabricators
               THEN /\ result' = [kind |-> "NoBlueprint", name |-> name]
                    /\ pc' = "done"
                    /\ UNCHANGED <<rest, builder>>
               ELSE IF ~DeserializeNode(fabricators[name].tid, comp)
                    THEN /\ result' = [kind |-> "DeError", name |-> name]
                         /\ pc' = "done"
                         /\ UNCHANGED <<rest, builder>>
                    ELSE /\ builder' = Append(builder,
                                           [tid |-> fabricators[name].tid, node |-> comp])
                         /\ rest' = Tail(rest)
                         /\ UNCHANGED <<result, pc>>
    /\ UNCHANGED <<prints, registryVars, op, target, arg, old, stack, ret, print,
                   last>>
    /\ UNCHANGED <<mapVars, seqVars>>

\* KdlNodeDeser::new(node).deserialize_<ty>(visitor)
deserialize_node(node, ty) ==
    /\ Idle
    /\ op' = "deserialize_node"
    /\ arg' = [node |-> node, ty |-> ty]
    /\ result' = KdlNodeDeser(ty, node)
    /\ pc' = "done"
    /\ UNCHANGED <<prints, registryVars, target, old, stack, ret, print, rest,
                   builder, last>>
    /\ UNCHANGED <<mapVars, seqVars>>

\* KdlAnnotatedLiteralDeser::new(al).deserialize_<ty>(visitor)
deserialize_literal(al, ty) ==
    /\ Idle
    /\ op' = "deserialize_literal"
    /\ arg' = [al |-> al, ty |-> ty]
    /\ result' = KdlAnnotatedLiteralDeser(ty, al)
    /\ pc' = "done"
    /\ UNCHANGED <<prints, registryVars, target, old, stack, ret, print, rest,
                   builder, last>>
    /\ UNCHANGED <<mapVars, seqVars>>

\* AnEnum::deserialize(KdlAnnotatedLiteralDeser::new(al)), the newtype
\* variant holding a value of the shape `inner`
deserialize_enum(al, inner) ==
    /\ Idle
    /\ op' = "deserialize_enum"
    /\ arg' = [al |-> al, ty |-> "enum", inner |-> inner]
    /\ result' = DeserializeEnum(al, inner)
    /\ pc' = "done"
    /\ UNCHANGED <<prints, registryVars, target, old, stack, ret, print, rest,
                   builder, last>>
    /\ UNCHANGED <<mapVars, seqVars>>

----------------------------------------------------------------------------
\* knurdy: MapDeser, the MapAccess that deserialize_map hands to the visitor

\* MapDeserVal
MapDeserValNone == [tag |-> "None"]

Property(prop) == [tag |-> "Property", val |-> prop]

Child(kid) == [tag |-> "Child", val |-> kid]

\* ToSnekCase::to_snek_case on the keys of the model
Snek(key) ==
    CASE key = "maxHp" -> "max_hp"
      [] key = "trackedPosition" -> "tracked_position"
      [] OTHER -> key

\* the orders in which `self.properties.iter()` may yield the keys
IterOrders(properties) ==
    {order \in [1..Cardinality(DOMAIN properties) -> DOMAIN properties] :
        \A i, j \in DOMAIN order : i # j => order[i] # order[j]}

\* `properties.reverse()`
Reverse(s) == [i \in 1..Len(s) |-> s[Len(s) + 1 - i]]

\* `MapDeser { properties, children, value: MapDeserVal::None, snekify }`
MapDeser(node, snekify, order) ==
    [properties |-> Reverse([i \in 1..Len(order) |->
                               [key |-> order[i], val |-> node.properties[order[i]]]]),
     children |-> node.children,
     value |-> MapDeserValNone,
     snekify |-> snekify]

\* the entry of the node a key was taken from
NoEntry == [from |-> "none", key |-> "", index |-> 0]

PropertyEntry(key) == [from |-> "property", key |-> key, index |-> 0]

ChildEntry(name, index) == [from |-> "child", key |-> name, index |-> index]

\* the visitor holds a key whose value it has not asked for yet
HaveKey ==
    /\ last_call # NoValue
    /\ last_call.call = "next_key"
    /\ IF last_call.out.kind = "Ok" THEN last_call.out.key # None
                                   ELSE last_call.had_key

\* the entry of the key the visitor received last
LastKeyEntry == IF keys = <<>> THEN NoEntry ELSE keys[Len(keys)].entry

\* KdlNodeDeser::deserialize_map (snekify FALSE) or deserialize_struct
\* (snekify TRUE) up to its visitor.visit_map(MapDeser { .. })
deserialize_map(node, snekify, order) ==
    /\ Idle
    /\ op' = "deserialize_map"
    /\ arg' = [node |-> node, ty |-> IF snekify THEN "struct" ELSE "map"]
    /\ IF NodeDeserializeMap(node, snekify).kind = "Err"
       THEN /\ result' = NodeDeserializeMap(node, snekify)
            /\ pc' = "done"
            /\ UNCHANGED map_deser
       ELSE /\ map_deser' = MapDeser(node, snekify, order)
            /\ pc' = "visit_map"
            /\ UNCHANGED result
    /\ UNCHANGED <<prints, registryVars, target, old, stack, ret, print, rest,
                   builder, last, last_call, keys, clean, seqVars>>

\* the children taken ahead of the properties
next_key_seed_children_first(seed_ok) ==
    /\ pc = "visit_map"
    /\ LET pending == map_deser.value # MapDeserValNone
           pops_child == /\ ~pending
                         /\ map_deser.children # None
                         /\ map_deser.children[1] # <<>>
           pops_property == ~pending /\ ~pops_child /\ map_deser.properties # <<>>
           top == map_deser.properties[Len(map_deser.properties)]
           kid == map_deser.children[1][1]
           key == IF pops_property THEN top.key ELSE kid.name
           entry == IF pops_property THEN PropertyEntry(key)
                    ELSE ChildEntry(key, Len(arg.node.children[1])
                                         - Len(map_deser.children[1]) + 1)
           snek == IF map_deser.snekify THEN Snek(key) ELSE key
           out == IF pending
                  THEN Err("custom", "map visitor requested two keys in a row")
                  ELSE IF ~pops_property /\ ~pops_child
                       THEN [kind |-> "Ok", key |-> None]
                       ELSE IF seed_ok THEN [kind |-> "Ok", key |-> Some(snek)]
                                       ELSE Err("seed", "key")
       IN /\ map_deser' =
                IF pops_property
                THEN [map_deser EXCEPT !.properties = SubSeq(@, 1, Len(@) - 1),
                                       !.value = Property(top.val)]
                ELSE IF pops_child
                     THEN [map_deser EXCEPT !.children = Some(Tail(@[1])),
                                            !.value = Child(kid)]
                     ELSE map_deser
          /\ last_call' = [call |-> "next_key", out |-> out, had_key |-> HaveKey,
                           key_entry |-> LastKeyEntry]
          /\ keys' = IF out.kind = "Ok" /\ out.key # None
                     THEN Append(keys, [key |-> snek, entry |-> entry])
                     ELSE keys
          /\ clean' = (clean /\ out.kind = "Ok")
    /\ UNCHANGED <<prints, registryVars, op, target, arg, old, pc, stack, ret, print,
                   rest, builder, result, last, seqVars>>

\* MapDeser::next_key_seed(seed); seed_ok: `seed.deserialize(key)` returns Ok
next_key_seed(seed_ok) ==
    /\ pc = "visit_map"
    /\ LET pending == map_deser.value # MapDeserValNone
           pops_property == ~pending /\ map_deser.properties # <<>>
           pops_child == /\ ~pending
                         /\ map_deser.properties = <<>>
                         /\ map_deser.children # None
                         /\ map_deser.children[1] # <<>>
           top == map_deser.properties[Len(map_deser.properties)]
           kid == map_deser.children[1][1]
           key == IF pops_property THEN top.key ELSE kid.name
           entry == IF pops_property THEN PropertyEntry(key)
                    ELSE ChildEntry(key, Len(arg.node.children[1])
                                         - Len(map_deser.children[1]) + 1)
           snek == IF map_deser.snekify THEN Snek(key) ELSE key
           out == IF pending
                  THEN Err("custom", "map visitor requested two keys in a row")
                  ELSE IF ~pops_property /\ ~pops_child
                       THEN [kind |-> "Ok", key |-> None]
                       ELSE IF seed_ok THEN [kind |-> "Ok", key |-> Some(snek)]
                                       ELSE Err("seed", "key")
       IN /\ map_deser' =
                IF pops_property
                THEN [map_deser EXCEPT !.properties = SubSeq(@, 1, Len(@) - 1),
                                       !.value = Property(top.val)]
                ELSE IF pops_child
                     THEN [map_deser EXCEPT !.children = Some(Tail(@[1])),
                                            !.value = Child(kid)]
                     ELSE map_deser
          /\ last_call' = [call |-> "next_key", out |-> out, had_key |-> HaveKey,
                           key_entry |-> LastKeyEntry]
          /\ keys' = IF out.kind = "Ok" /\ out.key # None
                     THEN Append(keys, [key |-> snek, entry |-> entry])
                     ELSE keys
          /\ clean' = (clean /\ out.kind = "Ok")
    /\ UNCHANGED <<prints, registryVars, op, target, arg, old, pc, stack, ret, print,
                   rest, builder, result, last, seqVars>>

\* MapDeser::next_value_seed(seed); seed_ok: `seed.deserialize(value)` returns Ok
next_value_seed(seed_ok) ==
    /\ pc = "visit_map"
    /\ LET out == IF map_deser.value = MapDeserValNone
                  THEN Err("custom", "map visitor requested a value without a key")
                  ELSE IF seed_ok THEN [kind |-> "Ok", value |-> map_deser.value]
                                  ELSE Err("seed", "value")
       IN /\ map_deser' = [map_deser EXCEPT !.value = MapDeserValNone]
          /\ last_call' = [call |-> "next_value", out |-> out, had_key |-> HaveKey,
                           key_entry |-> LastKeyEntry]
          /\ clean' = (clean /\ out.kind = "Ok")
    /\ UNCHANGED <<prints, registryVars, op, target, arg, old, pc, stack, ret, print,
                   rest, builder, result, last, keys, seqVars>>

\* the visitor returns from visit_map
visit_map_return ==
    /\ pc = "visit_map"
    /\ result' = Visit("map", MapOf(arg.node, map_deser.snekify))
    /\ pc' = "done"
    /\ UNCHANGED <<prints, registryVars, op, target, arg, old, stack, ret, print,
                   rest, builder, last, mapVars, seqVars>>

\* KdlNodeDeser::deserialize_seq, deserialize_tuple, deserialize_tuple_struct
\* or deserialize_any up to its visitor.visit_seq(..), when it gets there
deserialize_seq(node, ty) ==
    /\ Idle
    /\ op' = "deserialize_seq"
    /\ arg' = [node |-> node, ty |-> ty]
    /\ IF KdlNodeDeser(ty, node).kind = "Visit" /\ KdlNodeDeser(ty, node).method = "seq"
       THEN /\ seq_access' = KdlNodeDeser(ty, node).value
            /\ pc' = "visit_seq"
            /\ UNCHANGED result
       ELSE /\ result' = KdlNodeDeser(ty, node)
            /\ pc' = "done"
            /\ UNCHANGED seq_access
    /\ UNCHANGED <<prints, registryVars, target, old, stack, ret, print, rest,
                   builder, last, mapVars, elements>>

\* the visitor asks the SeqAccess for its next element, of the shape `ty`; it
\* asks no more once it was told there is none
next_element_seed(ty) ==
    /\ pc = "visit_seq"
    /\ IF elements = <<>> THEN TRUE ELSE elements[Len(elements)].out # None
    /\ seq_access' = NextElementSeed(seq_access, ty).access
    /\ elements' = Append(elements, [ty |-> ty, out |-> NextElementSeed(seq_access, ty).out])
    /\ UNCHANGED <<prints, registryVars, op, target, arg, old, pc, stack, ret, print,
                   rest, builder, result, last, mapVars>>

\* the visitor returns from visit_seq, having taken as many elements as its
\* type holds
visit_seq_return ==
    /\ pc = "visit_seq"
    /\ result' = KdlNodeDeser(arg.ty, arg.node)
    /\ pc' = "done"
    /\ UNCHANGED <<prints, registryVars, op, target, arg, old, stack, ret, print,
                   rest, builder, last, mapVars, seqVars>>

\* the call has returned; the caller keeps its outcome
finish ==
    /\ pc = "done"
    /\ last' = IF op = "lookup" THEN [name |-> target, result |-> result]
                ELSE IF op = "insert_raw" THEN NoLast
                ELSE last
    /\ op' = "none"
    /\ target' = ""
    /\ arg' = NoValue
    /\ old' = NoValue
    /\ pc' = "idle"
    /\ stack' = <<>>
    /\ ret' = NoValue
    /\ print' = NoValue
    /\ rest' = <<>>
    /\ builder' = <<>>
    /\ result' = NoValue
    /\ map_deser' = NoValue
    /\ last_call' = NoValue
    /\ keys' = <<>>
    /\ clean' = TRUE
    /\ seq_access' = NoValue
    /\ elements' = <<>>
    /\ UNCHANGED <<prints, registryVars>>

\* the steps of a call once it is made: of a library call, of any call
LibStep == recurse \/ recurse_return \/ lookup_return \/ finish

Step == LibStep \/ instantiate_comp

----------------------------------------------------------------------------------------------------------------------------------------
\* Spec: the fabricator and its library. Documents of blueprints that carry
\* one component node each and leave `merge` at its default; the two
\* component names registered under either type.

FabNodes == {Node("name", <<"Macy">>), Node("legendary", <<>>)}

FabNames == {"alpha", "beta"}

FabBlueprints ==
    {b \in RawBlueprint(FabNames, {<<n>> : n \in FabNodes}) :
        b.merge = "Merge" /\ b.inherit \in {NoInherit, "alpha"}}

FabLookups == FabNames \cup {"gamma"}

Next ==
    \/ \E name \in CompNames, tid \in CompTypes : register(name, tid)
    \/ \E raws \in SeqsUpTo(FabBlueprints, MaxDoc) : load_str(raws)
    \/ \E name \in FabLookups : lookup(name)
    \/ \E name \in FabLookups : instantiate_catching_builder(name)
    \/ Step

Spec == Init /\ [][Next]_vars

----------------------------------------------------------------------------
\* SpecLookup: a library of three blueprints with every inherit link among
\* them, one component node each.

LookupNames == {"alpha", "beta", "gamma"}

LookupBlueprints ==
    RawBlueprint(LookupNames, {<<Node("legendary", <<>>)>>})

NextLookup ==
    \/ \E blueprint \in LookupBlueprints : insert_raw(blueprint)
    \/ \E name \in LookupNames : lookup(name)
    \/ LibStep

SpecLookup == Init /\ [][NextLookup]_vars

----------------------------------------------------------------------------
\* SpecInsert: one library entry, every component list up to MaxComps nodes.

InsertBlueprints ==
    {b \in RawBlueprint({"alpha", "beta"}, SeqsUpTo(LibNodes, MaxComps)) :
        b.name = "alpha" /\ b.inherit # "alpha"}

NextInsert ==
    \/ \E blueprint \in InsertBlueprints : insert_raw(blueprint)
    \/ lookup("alpha")
    \/ LibStep

SpecInsert == Init /\ [][NextInsert]_vars

----------------------------------------------------------------------------
\* SpecInherit: a parent `alpha` and a blueprint `beta` that inherits it, each
\* loaded from documents of one blueprint.

InheritBlueprints ==
    {b \in RawBlueprint({"alpha", "beta"}, SeqsUpTo(LibNodes, MaxOwnComps)) :
        b.inherit = (IF b.name = "beta" THEN "alpha" ELSE NoInherit)}

NextInherit ==
    \/ \E blueprint \in InheritBlueprints : load_str(<<blueprint>>)
    \/ \E name \in {"alpha", "beta"} : lookup(name)
    \/ LibStep

SpecInherit == Init /\ [][NextInherit]_vars

----------------------------------------------------------------------------
\* SpecDistinct: a parent `alpha` and a blueprint `beta` that inherits it,
\* every incoming blueprint with components of pairwise different names.

Distinct(comps) ==
    \A i, j \in 1..Len(comps) : i # j => comps[i].name # comps[j].name

DistinctBlueprints ==
    {b \in RawBlueprint({"alpha", "beta"},
                        {comps \in SeqsUpTo(LibNodes, MaxComps) : Distinct(comps)}) :
        b.inherit = (IF b.name = "beta" THEN "alpha" ELSE NoInherit)}

NextDistinct ==
    \/ Idle /\ \E blueprint \in DistinctBlueprints : insert_raw(blueprint)
    \/ \E name \in {"alpha", "beta"} : lookup(name)
    \/ LibStep

SpecDistinct == Init /\ [][NextDistinct]_vars

----------------------------------------------------------------------------
\* SpecLoad: sources loaded one after another into one library; every kind
\* of invalid top-level node, at every place of a document.

LoadEntryLists ==
    LET inherit_alpha == Entry(Some("inherit"), Some("alpha"), None)
        inherit_beta == Entry(Some("inherit"), Some("beta"), None)
        clobber == Entry(Some("merge"), Some("Clobber"), None)
        merge == Entry(Some("merge"), Some("merge"), None)
    IN {<<>>, <<inherit_alpha>>, <<clobber>>, <<inherit_alpha, merge>>,
        <<inherit_alpha, inherit_beta>>, <<clobber, merge>>,
        <<Entry(None, Some("alpha"), None)>>,
        <<Entry(Some("inherit"), None, None)>>,
        <<Entry(Some("merge"), None, None)>>,
        <<Entry(Some("merge"), Some("sideways"), None)>>,
        <<Entry(Some("color"), Some("alpha"), None)>>,
        <<Entry(Some("inherit"), Some("alpha"), Some("string"))>>}

LoadKids ==
    {Kid(name, Some(<<Node("legendary", <<>>)>>), entries) :
        name \in {"alpha", "beta"}, entries \in LoadEntryLists}
    \cup {Kid("alpha", None, <<>>)}

LoadSrcs == {Unparsable} \cup {Parsed(doc) : doc \in SeqsUpTo(LoadKids, MaxDoc)}

NextLoad ==
    \/ Idle /\ \E src \in LoadSrcs : load_str_from(src)
    \/ finish

SpecLoad == Init /\ [][NextLoad]_vars

----------------------------------------------------------------------------
\* SpecDeser: one decoder call at a time, of a node or of an annotated
\* literal, at every shape a target type can request.

Strs == {<<>>, <<65>>, <<233>>, <<65, 66>>, <<81, 81, 61, 61>>}

Ints ==
    {-32769, -32768, -129, -128, -1, 0, 65, 127, 128, 255, 256, 32767, 32768,
     55296, 65535, 65536, 1114112}

Literals ==
    {KdlString(s) : s \in Strs} \cup {KdlInt(it) : it \in Ints}
    \cup {KdlFloat("1.5"), KdlFloat("0.1"), KdlBool(TRUE), KdlBool(FALSE), KdlNull}

Annotations == {None, Some("byte"), Some("char"), Some("base64"), Some("meters")}

AnnotatedLiterals ==
    {KdlAnnotatedLiteral(annotation, literal) :
        annotation \in Annotations, literal \in Literals}

\* the literals of nodes that hold more than one argument, a property or children
NodeLits == {KdlAnnotatedLiteral(None, KdlInt(65)),
             KdlAnnotatedLiteral(Some("byte"), KdlString(<<65>>))}

ArgLists == {<<al>> : al \in AnnotatedLiterals} \cup SeqsUpTo(NodeLits, MaxArgs)

PropMaps == {EmptyMap} \cup {"mass" :> al : al \in {KdlAnnotatedLiteral(None, KdlInt(65))}}

KidNodes ==
    {KdlNode(name, <<KdlAnnotatedLiteral(None, KdlInt(65))>>, EmptyMap, None) :
        name \in {"-", "mass"}}

KidLists == {None} \cup {Some(kids) : kids \in SeqsUpTo(KidNodes, MaxKids)}

DeserNodes ==
    {KdlNode("node", arguments, properties, children) :
        arguments \in ArgLists, properties \in PropMaps, children \in KidLists}

NextDeser ==
    \/ Idle /\ \E node \in DeserNodes, ty \in Requests : deserialize_node(node, ty)
    \/ Idle /\ \E al \in AnnotatedLiterals, ty \in Requests : deserialize_literal(al, ty)
    \/ finish

SpecDeser == Init /\ [][NextDeser]_vars

----------------------------------------------------------------------------
\* SpecMap: one node decoded as a map or as a record, the visitor calling
\* next_key_seed and next_value_seed in any order, with seeds that accept or
\* refuse what they are given.

PropKeys == {"mass", "maxHp", "kind"}

\* each property with a literal of its own
PropertyOf(key) ==
    CASE key = "mass" -> KdlAnnotatedLiteral(None, KdlInt(65))
      [] key = "maxHp" -> KdlAnnotatedLiteral(None, KdlInt(255))
      [] OTHER -> KdlAnnotatedLiteral(None, KdlString(<<65>>))

MapProps ==
    {[key \in K |-> PropertyOf(key)] : K \in {K \in SUBSET PropKeys : Cardinality(K) <= MaxProps}}

MapKids ==
    {KdlNode("name", <<KdlAnnotatedLiteral(None, KdlString(<<65>>))>>, EmptyMap, None),
     KdlNode("trackedPosition", <<>>, EmptyMap, None)}

MapNodes ==
    {KdlNode("node", arguments, properties, children) :
        arguments \in {<<>>, <<KdlAnnotatedLiteral(None, KdlInt(65))>>},
        properties \in MapProps,
        children \in {None} \cup {Some(kids) : kids \in SeqsUpTo(MapKids, MaxKids)}}

NextMap ==
    \/ Idle /\ \E node \in MapNodes, snekify \in BOOLEAN :
                \E order \in IterOrders(node.properties) :
                    deserialize_map(node, snekify, order)
    \/ \E seed_ok \in BOOLEAN : next_key_seed(seed_ok)
    \/ \E seed_ok \in BOOLEAN : next_value_seed(seed_ok)
    \/ visit_map_return
    \/ finish

SpecMap == Init /\ [][NextMap]_vars

----------------------------------------------------------------------------
\* SpecSeq: one node asked for a sequence, a tuple, a tuple struct or
\* untyped, the visitor taking elements of any shape and returning when it
\* likes.

SeqNodes ==
    {KdlNode("node", arguments, properties, children) :
        arguments \in SeqsUpTo(NodeLits, MaxArgs), properties \in PropMaps,
        children \in KidLists}

\* shapes asked of the elements
ElemTys == {"any", "u8", "string"}

NextSeq ==
    \/ Idle /\ \E node \in SeqNodes, ty \in {"seq", "tuple", "tuple_struct", "any"} :
                deserialize_seq(node, ty)
    \/ \E ty \in ElemTys : next_element_seed(ty)
    \/ visit_seq_return
    \/ finish

SpecSeq == Init /\ [][NextSeq]_vars

----------------------------------------------------------------------------
\* SpecEnum: one annotated literal decoded as AnEnum, under every annotation
\* and literal kind, the newtype variant holding each shape in turn.

EnumStrs ==
    {<<85, 110, 105, 116>>, <<78, 101, 119, 116, 121, 112, 101>>,
     <<84, 117, 112, 108, 101>>, <<83, 116, 114, 117, 99, 116>>, <<65>>}

EnumAnnotations ==
    {None, Some("Unit"), Some("Newtype"), Some("Tuple"), Some("Struct"),
     Some("meters")}

EnumLiterals ==
    {KdlAnnotatedLiteral(annotation, literal) :
        annotation \in EnumAnnotations,
        literal \in {KdlString(s) : s \in EnumStrs}
                    \cup {KdlInt(65), KdlInt(256), KdlFloat("1.5"), KdlBool(TRUE),
                          KdlNull}}

NextEnum ==
    \/ Idle /\ \E al \in EnumLiterals, inner \in Requests : deserialize_enum(al, inner)
    \/ finish

SpecEnum == Init /\ [][NextEnum]_vars

----------------------------------------------------------------------------
\* Replace-or-append, stated by position. `out` keeps `base` slot by slot,
\* except that the first slot of each name `inc` carries holds the last
\* component of that name in `inc`; after the slots of `base` come the names
\* only `inc` has, once each, in the order `inc` first brings them, each with
\* the last component `inc` has of that name.

FirstIndex(comps, name) ==
    CHOOSE i \in 1..Len(comps) :
        comps[i].name = name /\ \A j \in 1..(i - 1) : comps[j].name # name

LastNamed(comps, name) ==
    comps[CHOOSE i \in 1..Len(comps) :
            comps[i].name = name /\ \A j \in (i + 1)..Len(comps) : comps[j].name # name]

ReplacedThenAppended(base, inc, out) ==
    /\ Len(out) >= Len(base)
    /\ \A i \in 1..Len(base) :
          out[i] = IF base[i].name \in Names(inc) /\ FirstIndex(base, base[i].name) = i
                   THEN LastNamed(inc, base[i].name)
                   ELSE base[i]
    /\ LET appended == SubSeq(out, Len(base) + 1, Len(out)) IN
          /\ Names(appended) = Names(inc) \ Names(base)
          /\ Len(appended) = Cardinality(Names(appended))
          /\ \A k \in 1..Len(appended) :
                appended[k] = LastNamed(inc, appended[k].name)
          /\ \A k, l \in 1..Len(appended) :
                k < l => FirstIndex(inc, appended[k].name) < FirstIndex(inc, appended[l].name)

LookupDone == pc = "done" /\ op = "lookup"

InsertDone == pc = "done" /\ op = "insert_raw"

----------------------------------------------------------------------------
\* C1: when a blueprint that inherits a parent is looked up right after the
\* parent, its component list is the parent's resolved list in the parent's
\* order, the child's components written over the same-named slots and the
\* child's new names appended in the child's order, whether the child's
\* entry carries Merge or Clobber.
C1_ChildOverlaysParent ==
    (/\ LookupDone
     /\ result.kind = "Ok"
     /\ prints[target].inherit # NoInherit
     /\ last.name = prints[target].inherit
     /\ last.result.kind = "Ok")
    => /\ prints[target].merge \in MergeMode
       /\ ReplacedThenAppended(last.result.components,
                               prints[target].components,
                               result.components)

\* a Clobber child that keeps the parent's first component, replaces the
\* second and appends one
C1_Witness ==
    /\ LookupDone
    /\ result.kind = "Ok"
    /\ prints[target].inherit # NoInherit
    /\ prints[target].merge = "Clobber"
    /\ last.name = prints[target].inherit
    /\ last.result.kind = "Ok"
    /\ Len(last.result.components) = 2
    /\ Len(result.components) = 3
    /\ result.components[1] = last.result.components[1]
    /\ result.components[2] # last.result.components[2]
    /\ result.components[2].name = last.result.components[2].name

\* C2: a Merge insert under an existing name writes each incoming component
\* over the existing one of its name, or appends it; existing components of
\* other names stay where they were, ahead of everything appended.
C2_MergeReplacesOrAppends ==
    (InsertDone /\ old # NoValue /\ arg.merge = "Merge")
    => /\ ReplacedThenAppended(old.components, arg.components,
                               prints[arg.name].components)
       /\ \A i \in 1..Len(old.components) :
             old.components[i].name \notin Names(arg.components)
             => prints[arg.name].components[i] = old.components[i]

\* of two old components the first is kept and the second replaced by the
\* second incoming one, after the first incoming one was appended
C2_Witness ==
    /\ InsertDone
    /\ old # NoValue
    /\ arg.merge = "Merge"
    /\ Len(old.components) = 2
    /\ Len(arg.components) = 2
    /\ old.components[1].name \notin Names(arg.components)
    /\ arg.components[2].name = old.components[2].name
    /\ arg.components[2] # old.components[2]
    /\ arg.components[1].name \notin Names(old.components)
    /\ prints[arg.name].components =
          <<old.components[1], arg.components[2], arg.components[1]>>

\* C3: a Clobber insert under an existing name leaves exactly the incoming
\* blueprint as the entry; an insert under a new name stores the incoming
\* blueprint as it is, in either merge mode.
C3_ClobberReplacesEntry ==
    InsertDone
    => /\ (old # NoValue /\ arg.merge = "Clobber") => prints[arg.name] = arg
       /\ old = NoValue => prints[arg.name] = arg

\* a Clobber insert over an entry that differs in inherit, merge and components
C3_Witness ==
    /\ InsertDone
    /\ old # NoValue
    /\ arg.merge = "Clobber"
    /\ old.merge = "Merge"
    /\ old.inherit # arg.inherit
    /\ Len(old.components) > Len(arg.components)
    /\ prints[arg.name] = arg

----------------------------------------------------------------------------
\* The inherit chain of a name, read off the library

\* the name `k` inherit links up from `name`; NoInherit once the chain has ended
RECURSIVE Ancestor(_, _, _)
Ancestor(lib, name, k) ==
    IF k = 0 THEN name
    ELSE LET below == Ancestor(lib, name, k - 1)
         IN IF below \in DOMAIN lib THEN lib[below].inherit ELSE NoInherit

Size(lib) == Cardinality(DOMAIN lib)

\* the names the chain of `name` comes back to
CycleMembers(lib, name) ==
    {Ancestor(lib, name, k) : k \in 0..Size(lib)}
    \cap {n \in DOMAIN lib :
            \E k \in 0..Size(lib), l \in 1..Size(lib) :
                Ancestor(lib, name, k) = n /\ Ancestor(lib, name, k + l) = n}

ReachesCycle(lib, name) == CycleMembers(lib, name) # {}

----------------------------------------------------------------------------
\* C4: a lookup whose inherit chain reaches a cycle fails with
\* InheritanceLoop; the path holds each member of the cycle once, each
\* followed by the blueprint it inherits, and ends with its first name again;
\* no blueprint outside the cycle is in it.
C4_LoopPathIsTheCycle ==
    (LookupDone /\ ReachesCycle(prints, target))
    => /\ result.kind = "InheritanceLoop"
       /\ LET path == result.path
              n == Len(path) - 1
          IN /\ n >= 1
             /\ path[n + 1] = path[1]
             /\ {path[i] : i \in 1..n} = CycleMembers(prints, target)
             /\ \A i, j \in 1..n : i # j => path[i] # path[j]
             /\ \A i \in 1..n : prints[path[i]].inherit = path[i + 1]

\* the looked-up blueprint leads into a cycle of two others
C4_Witness ==
    /\ LookupDone
    /\ result.kind = "InheritanceLoop"
    /\ Cardinality(CycleMembers(prints, target)) = 2
    /\ target \notin CycleMembers(prints, target)
    /\ Len(result.path) = 3

\* the depth of recurse stays within the number of blueprints plus one, and a
\* lookup whose chain reaches a cycle does not return Ok
C5_Bounded ==
    /\ Len(stack) <= Size(prints) + 1
    /\ (LookupDone /\ ReachesCycle(prints, target)) => result.kind # "Ok"

\* C5: every lookup returns, with the depth of recurse never above the number
\* of blueprints plus one, and never with Ok when the chain reaches a cycle.
C5_LookupTerminates ==
    /\ []C5_Bounded
    /\ (pc = "recurse") ~> (pc = "done")

\* a lookup over a cycle of all three blueprints, back from depth four
C5_Witness ==
    /\ LookupDone
    /\ Size(prints) = 3
    /\ Cardinality(CycleMembers(prints, target)) = 3
    /\ result.kind = "InheritanceLoop"
    /\ Len(result.path) = 4

\* C6: InheriteeNotFound carries the blueprint that declared the inherit and
\* then the parent that is missing.
C6_InheriteeNotFoundNamesTheChild ==
    (LookupDone /\ result.kind = "InheriteeNotFound")
    => /\ result.f1 \notin DOMAIN prints
       /\ result.f0 \in DOMAIN prints
       /\ prints[result.f0].inherit = result.f1

\* C7: a lookup fails with NotFound(name) exactly when `name` itself is not
\* in the library; a parent that is missing does not give NotFound.
C7_NotFoundIffAbsent ==
    LookupDone
    => /\ result.kind = "NotFound" <=> target \notin DOMAIN prints
       /\ result.kind = "NotFound" => result.name = target
       /\ (target \in DOMAIN prints
            /\ prints[target].inherit # NoInherit
            /\ prints[target].inherit \notin DOMAIN prints)
           => result.kind = "InheriteeNotFound"

\* a present blueprint whose parent's parent is missing
C7_Witness ==
    /\ LookupDone
    /\ Size(prints) = 2
    /\ target \in DOMAIN prints
    /\ Ancestor(prints, target, 1) \in DOMAIN prints
    /\ Ancestor(prints, target, 2) \notin DOMAIN prints \cup {NoInherit}
    /\ result.kind = "InheriteeNotFound"

----------------------------------------------------------------------------
\* SpecLookupFair: a call that was made runs to its return

SpecLookupFair == SpecLookup /\ WF_vars(LibStep)

----------------------------------------------------------------------------
\* Claims about the fabricator

InstantiateDone == pc = "done" /\ op = "instantiate"

Registered(comp) == comp.name \in DOMAIN fabricators

\* the component has a factory and that factory decodes it
Builds(comp) ==
    Registered(comp) /\ DeserializeNode(fabricators[comp.name].tid, comp)

\* 1-based position of the first component that does not build, or one past the end
FirstFailure(comps) ==
    IF \A i \in 1..Len(comps) : Builds(comps[i]) THEN Len(comps) + 1
    ELSE CHOOSE i \in 1..Len(comps) :
            ~Builds(comps[i]) /\ \A j \in 1..(i - 1) : Builds(comps[j])

\* a step taken by lookup or instantiate
CallStep ==
    op \in {"lookup", "instantiate"} \/ op' \in {"lookup", "instantiate"}

\* C8: no step of lookup or instantiate changes the library, and a lookup
\* of the name looked up just before, with nothing loaded or registered
\* in between, returns the same value.
C8_CallsLeaveLibrary ==
    /\ [][CallStep => prints' = prints]_vars
    /\ []((LookupDone /\ last.name = target) => result = last.result)

\* the second of two lookups of a blueprint that overlays its parent
C8_Witness ==
    /\ LookupDone
    /\ last.name = target
    /\ result.kind = "Ok"
    /\ prints[target].inherit # NoInherit
    /\ Len(result.components) = 2
    /\ Len(prints[target].components) = 1

\* C9: the builder handed back has one insert, in resolved order, for every
\* component before the first that is unregistered or fails to decode and
\* none from there on; every component on success, none when the lookup fails.
C9_BuilderHoldsPrefix ==
    InstantiateDone
    => IF print = NoValue
       THEN result.kind = "BlueprintLookupError" /\ builder = <<>>
       ELSE LET comps == print.components
                stop == FirstFailure(comps)
            IN /\ builder = [i \in 1..(stop - 1) |->
                                [tid |-> fabricators[comps[i].name].tid,
                                 node |-> comps[i]]]
               /\ result.kind = "Ok" <=> stop = Len(comps) + 1
               /\ stop <= Len(comps)
                  => /\ result.name = comps[stop].name
                     /\ result.kind = IF Registered(comps[stop]) THEN "DeError"
                                                                 ELSE "NoBlueprint"

\* the second of two components fails to decode after the first was inserted
C9_Witness ==
    /\ InstantiateDone
    /\ result.kind = "DeError"
    /\ Len(print.components) = 2
    /\ Len(builder) = 1
    /\ builder[1].node = print.components[1]

\* C10 as claimed: every unregistered component of the resolved body is the
\* one the unregistered-component error names.
C10_EveryUnregisteredNamed ==
    (InstantiateDone /\ print # NoValue)
    => \A i \in 1..Len(print.components) :
          ~Registered(print.components[i])
          => result = [kind |-> "NoBlueprint", name |-> print.components[i].name]

\* C10: a resolved body with an unregistered component makes instantiate
\* fail, with the unregistered-component error naming it when every component
\* before it builds; a document is loaded whatever is registered; a resolved
\* body whose components all build is instantiated whatever else is loaded.
C10_UnregisteredFailsWhenReached ==
    /\ Idle => \A b \in FabBlueprints : ENABLED load_str(<<b>>)
    /\ (InstantiateDone /\ print # NoValue)
       => LET comps == print.components IN
          /\ (\E i \in 1..Len(comps) : ~Registered(comps[i])) => result.kind # "Ok"
          /\ \A i \in 1..Len(comps) :
                (~Registered(comps[i]) /\ FirstFailure(comps) = i)
                => result = [kind |-> "NoBlueprint", name |-> comps[i].name]
          /\ (\A i \in 1..Len(comps) : Builds(comps[i])) => result.kind = "Ok"

\* a blueprint is instantiated in full while another blueprint of the library
\* holds an unregistered component
C10_Witness ==
    /\ InstantiateDone
    /\ result.kind = "Ok"
    /\ Len(builder) = 1
    /\ \E n \in DOMAIN prints :
          /\ n # target
          /\ prints[n].inherit = NoInherit
          /\ \E i \in 1..Len(prints[n].components) :
                ~Registered(prints[n].components[i])

----------------------------------------------------------------------------
\* C11: register panics when the type was registered before, under any name,
\* and when the name was registered before, for any type; it returns only
\* when both are new, and then the name is registered for the type.
C11_RegisterPanicsOnRepeat ==
    [][\A name \in CompNames, tid \in CompTypes :
          register(name, tid)
          => /\ panicked' <=> (tid \in known_comp_types \/ name \in DOMAIN fabricators)
             /\ ~panicked' => /\ known_comp_types' = known_comp_types \cup {tid}
                              /\ DOMAIN fabricators' = DOMAIN fabricators \cup {name}
                              /\ fabricators'[name].tid = tid]_vars

\* a panic over a name that was taken, the type being new
C11_Witness ==
    /\ panicked
    /\ Cardinality(known_comp_types) = 2
    /\ Cardinality(DOMAIN fabricators) = 1

\* C12: a Merge insert under an existing name leaves the entry's inherit and
\* merge mode as they were, whatever the incoming blueprint carries.
C12_MergeKeepsHeader ==
    (InsertDone /\ old # NoValue /\ arg.merge = "Merge")
    => /\ prints[arg.name].inherit = old.inherit
       /\ prints[arg.name].merge = old.merge
       /\ prints[arg.name].name = old.name

\* a Merge insert onto a Clobber entry with another inherit
C12_Witness ==
    /\ InsertDone
    /\ old # NoValue
    /\ arg.merge = "Merge"
    /\ old.merge = "Clobber"
    /\ arg.inherit # old.inherit
    /\ arg.components # <<>>
    /\ prints[arg.name].inherit = old.inherit
    /\ prints[arg.name].merge = "Clobber"

----------------------------------------------------------------------------
\* Claims about the knurdy decoders

DeserDone == pc = "done" /\ op = "deserialize_node"

LitDone == pc = "done" /\ op = "deserialize_literal"

\* the same visitor call with the same value, or the same error
Same(a, b) ==
    /\ a.kind = b.kind
    /\ a.kind = "Visit" => (a.method = b.method /\ a.value = b.value)
    /\ a.kind = "Err" => (a.error = b.error /\ a.unexpected = b.unexpected)

\* the shapes C13 lists: untyped, scalar, enum, sequence/tuple, map, record, unit
ListedShapes ==
    IntTys \cup SingleScalarTys
    \cup {"enum", "any", "seq", "tuple", "tuple_struct", "map", "struct", "unit",
          "unit_struct"}

\* C13: a node with an argument and also a property or a child block is
\* rejected at every listed shape.
C13_ArgumentsWithRestRejected ==
    (/\ DeserDone
     /\ arg.node.arguments # <<>>
     /\ (DOMAIN arg.node.properties # {} \/ arg.node.children # None)
     /\ arg.ty \in ListedShapes)
    => result.kind = "Err"

\* the primitive shapes: each integer width, float, bool, char, byte, string,
\* byte sequence
PrimitiveShapes ==
    IntTys \cup {"f32", "f64", "bool", "char", "str", "string", "bytes", "byte_buf"}

\* C14: a node with one argument and nothing else decodes at every primitive
\* shape to what its argument decodes to at that shape.
C14_OneArgumentDecodesAsItsLiteral ==
    (DeserDone /\ OneArgumentOnly(arg.node) /\ arg.ty \in PrimitiveShapes)
    => Same(result, KdlAnnotatedLiteralDeser(arg.ty, arg.node.arguments[1]))

\* C15: a record request on a node with one argument and nothing else is
\* answered from the argument by the literal decoder, not rejected by the
\* node decoder for having an argument.
C15_RecordForwardsSingleArgument ==
    (DeserDone /\ OneArgumentOnly(arg.node) /\ arg.ty = "struct")
    => /\ Same(result, KdlAnnotatedLiteralDeser("struct", arg.node.arguments[1]))
       /\ ~(result.kind = "Err" /\ result.unexpected = "node with no arguments")

\* the child block has a child named `-` and a child named otherwise
MixedBlock(node) ==
    /\ node.children # None
    /\ \E i \in 1..Len(node.children[1]) : node.children[1][i].name = "-"
    /\ \E i \in 1..Len(node.children[1]) : node.children[1][i].name # "-"

\* C16: a node without arguments whose child block mixes `-` children and
\* named children is rejected by an untyped and by a sequence request.
C16_MixedBlockRejected ==
    (/\ DeserDone
     /\ arg.node.arguments = <<>>
     /\ MixedBlock(arg.node)
     /\ arg.ty \in {"any", "seq"})
    => result.kind = "Err"

\* the value the node holds under an entry, as the MapDeser keeps it
EntryValue(node, entry) ==
    IF entry.from = "property" THEN Property(node.properties[entry.key])
    ELSE Child(node.children[1][entry.index])

\* C17: next_key_seed fails while the visitor holds a key whose value it has
\* not asked for, next_value_seed fails when the visitor holds no such key,
\* and a next_value_seed that succeeds returns the value of the key the
\* latest successful next_key_seed returned.
C17_OneKeyThenItsValue ==
    last_call # NoValue
    => /\ (last_call.call = "next_key" /\ last_call.had_key)
          => last_call.out.kind = "Err"
       /\ (last_call.call = "next_value" /\ ~last_call.had_key)
          => last_call.out.kind = "Err"
       /\ (last_call.call = "next_value" /\ last_call.out.kind = "Ok")
          => /\ last_call.key_entry # NoEntry
             /\ last_call.out.value.tag = EntryValue(arg.node, last_call.key_entry).tag
             /\ last_call.out.value.val = EntryValue(arg.node, last_call.key_entry).val

\* every call so far succeeded and the latest was a next_key_seed that found
\* nothing left
CompleteRun ==
    /\ op = "deserialize_map"
    /\ clean
    /\ last_call # NoValue
    /\ last_call.call = "next_key"
    /\ last_call.out.kind = "Ok"
    /\ last_call.out.key = None

ChildrenOf(node) == IF node.children = None THEN <<>> ELSE node.children[1]

\* C18 as claimed: the keys of a complete run are the property keys, once
\* each, then the names of the children in document order, in the map view
\* and in the record view.
C18_KeysAreNames ==
    CompleteRun
    => LET np == Cardinality(DOMAIN arg.node.properties)
           kids == ChildrenOf(arg.node)
       IN /\ Len(keys) = np + Len(kids)
          /\ {keys[i].key : i \in 1..np} = DOMAIN arg.node.properties
          /\ \A i \in 1..Len(kids) : keys[np + i].key = kids[i].name

\* the key the view gives for a property key or child name
KeyFor(name) == IF map_deser.snekify THEN Snek(name) ELSE name

\* C18: a visitor that alternates next_key_seed and next_value_seed until
\* next_key_seed returns none gets one key for every property, then one key
\* for every child in document order: as many keys as properties and
\* children, no child before the last property, each key the property key or
\* child name, snake-cased in the record view.
C18_PropertiesThenChildren ==
    CompleteRun
    => LET np == Cardinality(DOMAIN arg.node.properties)
           kids == ChildrenOf(arg.node)
       IN /\ Len(keys) = np + Len(kids)
          /\ {keys[i].entry : i \in 1..np}
                = {PropertyEntry(key) : key \in DOMAIN arg.node.properties}
          /\ \A i \in 1..np : keys[i].key = KeyFor(keys[i].entry.key)
          /\ \A i \in 1..Len(kids) :
                /\ keys[np + i].entry = ChildEntry(kids[i].name, i)
                /\ keys[np + i].key = KeyFor(kids[i].name)

\* a record view of two properties and two children with different names,
\* a property key and a child name changed by the snake-casing
C18_Witness ==
    /\ CompleteRun
    /\ map_deser.snekify
    /\ Cardinality(DOMAIN arg.node.properties) = 2
    /\ Len(ChildrenOf(arg.node)) = 2
    /\ Len(keys) = 4
    /\ keys[3].entry.key # keys[4].entry.key
    /\ \E i \in 1..2 : keys[i].key # keys[i].entry.key
    /\ \E i \in 3..4 : keys[i].key # keys[i].entry.key

\* the plain integer rule of a byte request: an integer literal within 0..255
IntegerRuleU8(literal) ==
    IF literal.lit = "Int"
    THEN IF literal.it \in 0..255 THEN Visit("u8", literal.it)
                                  ELSE Err("IntSize", "int")
    ELSE Err("invalid_type", Unexpected(literal))

\* the string under the annotation `byte` that is one byte long
OneByteString(al) ==
    /\ al.annotation = Some("byte")
    /\ al.literal.lit = "String"
    /\ Len(AsBytes(al.literal.s)) = 1

\* C19 as claimed: a byte request yields the byte of a one-byte string
\* annotated `byte`, and in every other case what the plain integer rule gives.
C19_ByteOrIntegerRule ==
    (LitDone /\ arg.ty = "u8")
    => IF OneByteString(arg.al)
       THEN result = Visit("u8", AsBytes(arg.al.literal.s)[1])
       ELSE Same(result, IntegerRuleU8(arg.al.literal))

\* C19: a byte request yields the byte of a one-byte string annotated `byte`;
\* a string annotated `byte` of any other length fails with the
\* byte-annotation length error; every other literal gets what the plain
\* integer rule gives. A string request yields the string, annotated or not.
C19_ByteAnnotationRule ==
    /\ (LitDone /\ arg.ty = "u8")
       => IF OneByteString(arg.al)
          THEN result = Visit("u8", AsBytes(arg.al.literal.s)[1])
          ELSE IF arg.al.annotation = Some("byte") /\ arg.al.literal.lit = "String"
               THEN result = Err("ByteAnnotationLen", "Str")
               ELSE Same(result, IntegerRuleU8(arg.al.literal))
    /\ (LitDone /\ arg.ty = "string" /\ arg.al.literal.lit = "String")
       => result = Visit("str", arg.al.literal.s)

\* `(byte)"A"` requested as a byte gives 65
C19_Witness ==
    /\ LitDone
    /\ arg.ty = "u8"
    /\ arg.al = KdlAnnotatedLiteral(Some("byte"), KdlString(<<65>>))
    /\ result = Visit("u8", 65)

\* C20: a char request yields the char of a one-char string annotated
\* `char`; otherwise an integer literal yields the char of that scalar value,
\* or a range error when it is none; every other literal fails.
C20_CharFromAnnotationOrInteger ==
    (LitDone /\ arg.ty = "char")
    => IF /\ arg.al.annotation = Some("char")
          /\ arg.al.literal.lit = "String"
          /\ Len(arg.al.literal.s) = 1
       THEN result = Visit("char", arg.al.literal.s[1])
       ELSE IF arg.al.literal.lit = "Int"
            THEN IF IsScalarValue(arg.al.literal.it)
                 THEN result = Visit("char", arg.al.literal.it)
                 ELSE result.kind = "Err" /\ result.error \in {"IntSize", "InvalidChar"}
            ELSE result.kind = "Err"

----------------------------------------------------------------------------
\* Claims about the enum decoder

EnumDone == pc = "done" /\ op = "deserialize_enum"

\* no annotation and a string that names a unit variant
UnitForm(al) ==
    /\ al.annotation = None
    /\ al.literal.lit = "String"
    /\ AsStr(al.literal.s) \in {name \in DOMAIN AnEnum : AnEnum[name] = "unit"}

\* an annotation that names a newtype variant
NewtypeForm(al) ==
    /\ al.annotation # None
    /\ al.annotation[1] \in {name \in DOMAIN AnEnum : AnEnum[name] = "newtype"}

\* C21: an enum request on an annotated literal yields the unit variant an
\* unannotated string names, or the newtype variant an annotation names
\* around what the literal decodes to at the variant's inner shape, that
\* decode failing the request when it fails; every other combination fails
\* with an error: an unannotated literal that is no string, an annotation
\* naming a unit variant, an unannotated string naming a newtype variant, a
\* tuple or struct variant, a name of no variant.
C21_EnumTwoForms ==
    EnumDone
    => IF UnitForm(arg.al)
       THEN /\ result.kind = "Ok"
            /\ result.variant = AsStr(arg.al.literal.s)
            /\ result.value = None
       ELSE IF NewtypeForm(arg.al)
            THEN IF KdlLiteralDeser(arg.inner, arg.al.literal).kind = "Visit"
                 THEN /\ result.kind = "Ok"
                      /\ result.variant = arg.al.annotation[1]
                      /\ result.value = Some(KdlLiteralDeser(arg.inner, arg.al.literal))
                 ELSE result.kind # "Ok"
            ELSE result.kind = "Err"

\* `(Newtype)65` with a newtype variant that holds a u8
C21_Witness ==
    /\ EnumDone
    /\ arg.al = KdlAnnotatedLiteral(Some("Newtype"), KdlInt(65))
    /\ arg.inner = "u8"
    /\ result.kind = "Ok"
    /\ result.variant = "Newtype"
    /\ result.value = Some(Visit("u8", 65))

\* C22: no decode ends in a panic; a newtype variant whose value is itself
\* requested as an enum fails with an error like every other failure.
C22_NeverAborts ==
    EnumDone => result.kind \in {"Ok", "Err"}

----------------------------------------------------------------------------
\* Claims about integer requests

Bits(ty) ==
    CASE ty \in {"u8", "i8"} -> 8
      [] ty \in {"u16", "i16"} -> 16
      [] ty \in {"u32", "i32"} -> 32
      [] ty \in {"u64", "i64"} -> 64
      [] ty \in {"u128", "i128"} -> 128

Signed(ty) == ty \in {"i8", "i16", "i32", "i64", "i128"}

\* `it` lies in the range of the integer type; the literals of the model lie
\* within i32, inside the upper end of every type of 32 bits or more
InRange(ty, it) ==
    IF Signed(ty)
    THEN Bits(ty) >= 32 \/ (-(2 ^ (Bits(ty) - 1)) <= it /\ it < 2 ^ (Bits(ty) - 1))
    ELSE 0 <= it /\ (Bits(ty) >= 32 \/ it < 2 ^ Bits(ty))

\* C23: an integer request on an integer literal yields exactly the
\* literal's value when the value lies in the range of the requested type and
\* fails with the integer-size error when it does not, never with another
\* value; on a literal that is no integer it fails with a type mismatch (the
\* string annotated `byte` under a byte request aside, which has a rule of
\* its own).
C23_IntegerInRangeOrError ==
    (LitDone /\ arg.ty \in IntTys)
    => IF arg.al.literal.lit = "Int"
       THEN IF InRange(arg.ty, arg.al.literal.it)
            THEN /\ result.kind = "Visit"
                 /\ result.method = arg.ty
                 /\ result.value = arg.al.literal.it
            ELSE result.kind = "Err" /\ result.error = "IntSize"
       ELSE \/ arg.ty = "u8" /\ arg.al.annotation = Some("byte")
                              /\ arg.al.literal.lit = "String"
            \/ result.kind = "Err" /\ result.error = "invalid_type"

\* 256 requested as a byte is refused, not cut down to 0
C23_Witness ==
    /\ LitDone
    /\ arg.ty = "u8"
    /\ arg.al.literal = KdlInt(256)
    /\ result = Err("IntSize", "int")

----------------------------------------------------------------------------
\* Claims about the sequence views

SeqShapes == {"seq", "tuple", "tuple_struct"}

SeqCall == op = "deserialize_seq" /\ pc \in {"visit_seq", "done"}

\* the next_element_seed calls so far that returned an element or an error
\* for one, and whether the latest call found none left
Taken ==
    IF elements = <<>> THEN 0
    ELSE IF elements[Len(elements)].out = None THEN Len(elements) - 1
    ELSE Len(elements)

\* C24: a sequence, tuple or tuple-struct request on a node with arguments
\* and no properties and no child block hands the visitor one element per
\* argument, in argument order, each the literal decoder's answer for its
\* argument at the shape asked, and then none, however many elements the
\* request declares; on a node with no arguments and no child block the
\* request fails.
C24_SequenceOverArguments ==
    (/\ SeqCall
     /\ arg.ty \in SeqShapes
     /\ DOMAIN arg.node.properties = {}
     /\ arg.node.children = None)
    => IF arg.node.arguments = <<>>
       THEN pc = "done" /\ result.kind = "Err" /\ elements = <<>>
       ELSE /\ Taken <= Len(arg.node.arguments)
            /\ Taken < Len(elements) => Taken = Len(arg.node.arguments)
            /\ \A i \in 1..Taken :
                  Same(elements[i].out[1],
                       KdlAnnotatedLiteralDeser(elements[i].ty, arg.node.arguments[i]))
            /\ pc = "done" => (result.kind = "Visit" /\ result.method = "seq")

\* a tuple request on a node with two different arguments, both taken at
\* the untyped shape and none left after them
C24_Witness ==
    /\ SeqCall
    /\ arg.ty = "tuple"
    /\ DOMAIN arg.node.properties = {}
    /\ arg.node.children = None
    /\ Len(arg.node.arguments) = 2
    /\ arg.node.arguments[1] # arg.node.arguments[2]
    /\ Len(elements) = 3
    /\ elements[1].ty = "any"
    /\ elements[2].ty = "any"
    /\ elements[1].out[1].method # elements[2].out[1].method
    /\ elements[3].out = None

\* the view is a sequence
IsSeq(r) == r.kind = "Visit" /\ r.method = "seq"

\* C25: an untyped request presents a node as a sequence exactly when a
\* sequence request on the node succeeds, and then both hand out the same
\* elements in the same order; a node with properties is never presented as
\* a sequence.
C25_UntypedAgreesWithSequence ==
    (DeserDone /\ arg.ty = "any")
    => /\ IsSeq(result) <=> IsSeq(KdlNodeDeser("seq", arg.node))
       /\ IsSeq(result)
          => /\ result.value.access = KdlNodeDeser("seq", arg.node).value.access
             /\ result.value.items = KdlNodeDeser("seq", arg.node).value.items
             /\ DOMAIN arg.node.properties = {}

----------------------------------------------------------------------------
\* Claims about loading

LoadDone == pc = "done" /\ op = "load_str"

\* the top-level node is a valid blueprint, taken by itself
ValidKid(kid) == LoadFromKdl(<<kid>>).kind = "Ok"

\* C26: load_str fails when the source does not parse or any top-level node
\* is invalid, wherever it stands, and then leaves the library as it was; when
\* it succeeds the library is the old one with the blueprint of every
\* top-level node folded in by insert_raw in document order.
C26_LoadAllOrNothing ==
    LoadDone
    => /\ result.kind = "Err"
          <=> (~arg.parses \/ \E i \in 1..Len(arg.doc) : ~ValidKid(arg.doc[i]))
       /\ result.kind = "Err" => prints = old
       /\ result.kind = "Ok"
          => prints = LoadRaws(old, [i \in 1..Len(arg.doc) |->
                                       LoadFromKdl(<<arg.doc[i]>>).raws[1]])

\* a valid blueprint of a new name ahead of an invalid node: not inserted
C26_Witness ==
    /\ LoadDone
    /\ result.kind = "Err"
    /\ Len(arg.doc) = 2
    /\ ValidKid(arg.doc[1])
    /\ ~ValidKid(arg.doc[2])
    /\ arg.doc[1].name \notin DOMAIN old
    /\ prints = old

\* C27: a lookup that succeeds returns a Blueprint under the name that was
\* looked up, with or without ancestors.
C27_ResolvedNameIsRequested ==
    (LookupDone /\ result.kind = "Ok") => result.name = target

\* the top-level node carries the key twice and its first occurrence is valid
CarriesTwice(kid, key) ==
    /\ kid.children # None
    /\ Len(kid.entries) = 2
    /\ kid.entries[1].name = Some(key)
    /\ kid.entries[2].name = Some(key)
    /\ ValidKid(Kid(kid.name, kid.children, <<kid.entries[1]>>))

\* C28: a top-level node that carries `inherit` twice fails at the second
\* occurrence with ClobberInherit, one that carries `merge` twice fails at
\* the second occurrence with ClobberMerge.
C28_RepeatedKeyNamesItself ==
    (LoadDone /\ arg.parses /\ Len(arg.doc) = 1)
    => /\ CarriesTwice(arg.doc[1], "inherit")
          => /\ result.kind = "Err"
             /\ result.parse_kind = "ClobberInherit"
             /\ result.entry = 2
       /\ CarriesTwice(arg.doc[1], "merge")
          => /\ result.kind = "Err"
             /\ result.parse_kind = "ClobberMerge"
             /\ result.entry = 2

----------------------------------------------------------------------------
\* C29: while no register call has panicked, the known component types are
\* exactly the types of the factories in the name map, no two names hold the
\* same type, and there are as many names as known types.
C29_RegistryOneToOne ==
    ~panicked
    => /\ known_comp_types = {fabricators[name].tid : name \in DOMAIN fabricators}
       /\ \A n1, n2 \in DOMAIN fabricators :
             fabricators[n1].tid = fabricators[n2].tid => n1 = n2
       /\ Cardinality(known_comp_types) = Cardinality(DOMAIN fabricators)

\* two names registered, each for a type of its own
C29_Witness ==
    /\ ~panicked
    /\ Cardinality(DOMAIN fabricators) = 2
    /\ Cardinality(known_comp_types) = 2

\* C30: when every blueprint handed to insert_raw has components of pairwise
\* different names, every library entry has components of pairwise
\* different names after every insert, and so has the component list of
\* every lookup that succeeds.
C30_NamesStayDistinct ==
    /\ \A name \in DOMAIN prints : Distinct(prints[name].components)
    /\ (LookupDone /\ result.kind = "Ok") => Distinct(result.components)

\* a lookup through the parent: three components, one of the parent's
\* written over by the child's and one of the child's appended
C30_Witness ==
    /\ LookupDone
    /\ result.kind = "Ok"
    /\ prints[target].inherit # NoInherit
    /\ Len(result.components) = 3
    /\ Len(prints[target].components) = 2
    /\ Len(prints[prints[target].inherit].components) = 2

====
